---- MODULE Spec2Model ----
(***************************************************************************)
(* Model of the june-app signaling server (signaling-server/server.js):    *)
(* the session registry (activeUsers), the matchmaking pool (waitingUsers),*)
(* the room map (activeRooms) and the signaling relay.  Node runs every    *)
(* socket.io handler to completion on one thread, so each handler is one   *)
(* atomic action.                                                          *)
(***************************************************************************)
EXTENDS Integers, Sequences, FiniteSets, TLC

\* ------------------------------------------------------------------ bounds
NSockets == 3
MaxRooms == 2

Sockets == 1..NSockets
RoomIds == 1..MaxRooms

\* userSession values a client may register with ({userId, preferences})
UserIds == {"ua"}
Preferences == {"video"}

\* message.type values a client may put in a signaling-message; "bogus" is a
\* type outside every allow-list
MsgTypes == {"offer", "ice-candidate", "bogus"}
\* a field that is absent
Undefined == [type |-> "undefined", str |-> <<>>]
\* message.data: a payload, and optionally a from field (0: absent). Of the
\* payload the model keeps its candidate field (absent in an sdp payload)
\* and chars, the length of the message once serialized
Payload(candidate, chars) == [candidate |-> candidate, chars |-> chars]
Payloads == {Payload(Undefined, 1)}
ForgedFrom == {0, 1}

NoSocket == 0
NoRoomId == 0
NoRoom == [user1 |-> NoSocket, user2 |-> NoSocket]
NoMsg == [type |-> "", data |-> [payload |-> Payload(Undefined, 0), from |-> NoSocket]]

VARIABLES
  conn,          \* socket id -> "new" | "open" | "closed" (socket.io connection)
  activeUsers,   \* Map socketId -> userInfo
  waitingUsers,  \* Set of socket ids, in insertion order
  activeRooms,   \* Map roomId -> {user1, user2}
  nextRoomId,    \* the next value uuidv4() returns (ids are never reused)
  timers,        \* pending setTimeout callbacks of find-match
  last,          \* the handler invocation that produced this state
  emitted,       \* the events that invocation emitted, in order
  pair,          \* two matched clients deciding their negotiation roles
  webrtc,        \* one client's WebRTCService, its pending callbacks and
                 \* what it has sent
  ice,           \* the same service as its ICE candidate handler sees it
  limiter,       \* the rate limiter of one client's signaling service
  media,         \* the same WebRTCService: its stream references
  signaling      \* one client's signaling service: its WebSockets, its
                 \* reconnect timers and its room

vars == <<conn, activeUsers, waitingUsers, activeRooms, nextRoomId, timers,
          last, emitted, pair, webrtc, ice, limiter, media,
          signaling>>

server == <<activeUsers, waitingUsers, activeRooms>>

\* the state of the server and of its observers
serverVars == <<conn, activeUsers, waitingUsers, activeRooms, nextRoomId,
                timers, last, emitted>>

\* the state of the clients
clientVars == <<pair, webrtc, ice, limiter, media, signaling>>

\* ------------------------------------------------------- Map / Set helpers
EmptyMap == [x \in {} |-> 0]

MapSet(m, k, v) == [x \in (DOMAIN m) \cup {k} |-> IF x = k THEN v ELSE m[x]]

MapDelete(m, k) == [x \in (DOMAIN m) \ {k} |-> m[x]]

SeqToSet(q) == {q[i] : i \in 1..Len(q)}

\* Set.prototype.add keeps the insertion order and ignores a member
SetAdd(q, s) == IF s \in SeqToSet(q) THEN q ELSE Append(q, s)

\* Set.prototype.delete
SetDelete(q, s) == SelectSeq(q, LAMBDA x : x # s)

Event(type, to, body) == [type |-> type, to |-> to, body |-> body]

Invocation(op, s, roomId, room, msg) ==
  [op |-> op, sock |-> s, roomId |-> roomId, room |-> room, msg |-> msg]

\* io.to(id) / socket.emit reach a socket only while it is connected
Delivered(e) == conn[e.to] = "open"

\* ---------------------------------------------------------------- lookups
Participants(room) == {room.user1, room.user2}

\* the rooms that hold s, and the first of them in Map iteration order
\* (insertion order: room ids are handed out in increasing order)
RoomsIn(rooms, s) == {r \in DOMAIN rooms : s \in Participants(rooms[r])}

RoomsOf(s) == RoomsIn(activeRooms, s)

FirstRoomOf(s) ==
  IF RoomsOf(s) = {} THEN NoRoomId
  ELSE CHOOSE r \in RoomsOf(s) : \A q \in RoomsOf(s) : r <= q

\* find-match: "Check if user is already in a room"
AlreadyInRoomOneSided(s) == \E r \in DOMAIN activeRooms : activeRooms[r].user1 = s

AlreadyInRoom(s) ==
  \E r \in DOMAIN activeRooms :
    activeRooms[r].user1 = s \/ activeRooms[r].user2 = s

\* find-match: "Check if user is already waiting"
AlreadyWaitingNever(s) == FALSE

AlreadyWaiting(s) == s \in SeqToSet(waitingUsers)

\* Array.from(waitingUsers)[0]; undefined (falsy) on an empty Set
\* a pool from which nobody is ever taken
WaitingUserNone == NoSocket

WaitingUser == IF waitingUsers = <<>> THEN NoSocket ELSE Head(waitingUsers)

\* the other participant: room.user1 === socket.id ? room.user2 : room.user1
OtherUser(room, s) == IF room.user1 = s THEN room.user2 ELSE room.user1

\* ------------------------------------------------------------ timer ghosts
\* A timer is the closure of one setTimeout; stale records that its socket
\* has left the pool since the timer was armed.
MarkStale(ts, s) ==
  {IF t.sock = s THEN [t EXCEPT !.stale = TRUE] ELSE t : t \in ts}

\* ------------------------------------------------------------------- Init
\* the server after startup, before any connection
ServerStarted ==
  /\ conn = [s \in Sockets |-> "new"]
  /\ activeUsers = EmptyMap
  /\ waitingUsers = <<>>
  /\ activeRooms = EmptyMap
  /\ nextRoomId = 1
  /\ timers = {}
  /\ last = Invocation("init", NoSocket, NoRoomId, NoRoom, NoMsg)
  /\ emitted = <<>>

\* no client has been matched yet
NoPair == [ids |-> <<>>]

\* private peerConnection: RTCPeerConnection | null = null
NoPc == [signalingState |-> "none"]
\* private currentPeerId: string = ''
NoPeer == ""
\* lastProcessedAnswerKey: undefined
NoKey == <<>>

\* the WebRTCService singleton as its field initialisers leave it, with no
\* callback pending and nothing sent
ServiceCreated ==
  [peerConnection |-> NoPc,
   currentPeerId |-> NoPeer,
   isConnecting |-> FALSE,
   isConnected |-> FALSE,
   connectionRetries |-> 0,
   lastProcessedAnswerKey |-> NoKey,
   offerSent |-> FALSE,
   answerSent |-> FALSE,
   tasks |-> <<>>,
   timeouts |-> {},
   inRoom |-> FALSE,
   offerer |-> FALSE,
   offered |-> FALSE,
   answered |-> FALSE,
   answersApplied |-> 0,
   recovered |-> FALSE,
   op |-> "new",
   emits |-> {}]

\* candidate.sdpMLineIndex is null or an index; candidate.sdpMid is absent
\* or a media id
NullIndex == -1
NoMid == ""
\* no 'ice-candidate' event
NoIceData ==
  [shape |-> "none", candidate |-> Undefined,
   sdpMLineIndex |-> NullIndex, sdpMid |-> NoMid]

\* the WebRTCService as handleIceCandidate sees it: the peer connection
\* ("none", "no-remote": no remote description yet, "ready"), __DEV__, and
\* the observers: the data handled last, the candidates that invocation
\* passed to addIceCandidate, and the event log of the security monitor
IceServiceCreated(dev) ==
  [pc |-> "none",
   dev |-> dev,
   handled |-> NoIceData,
   added |-> <<>>,
   securityEvents |-> <<>>]

\* private readonly rateLimitWindow = 1000; maxMessagesPerWindow = 10
rateLimitWindow == 1000
maxMessagesPerWindow == 10

\* the limiter of a new signaling service: lastMessageTime = 0 and
\* messageCount = 0; now is Date.now(), one window and a millisecond after 0
\* when the service is created; the observers: sent, the number of messages
\* sent at each time of the last window, steps, the number of clock
\* advances, and rejected, whether the last message was rejected
LimiterCreated ==
  [lastMessageTime |-> 0,
   messageCount |-> 0,
   now |-> rateLimitWindow + 1,
   steps |-> 0,
   sent |-> EmptyMap,
   rejected |-> FALSE]

\* private localStream / remoteStream: MediaStream | null = null
NoStream == ""

\* the stream fields of a new WebRTCService: the private localStream and
\* remoteStream, and hasLocalStream, localStream, hasRemoteStream and
\* remoteStream of this.state
MediaCreated ==
  [localStream |-> NoStream,
   remoteStream |-> NoStream,
   hasLocalStream |-> FALSE,
   stateLocalStream |-> NoStream,
   hasRemoteStream |-> FALSE,
   stateRemoteStream |-> NoStream]

\* private maxReconnectAttempts = 5; private reconnectDelay = 1000
maxReconnectAttempts == 5
reconnectDelay == 1000

\* a new signaling service.  socket is the readyState of the WebSocket
\* this.socket refers to ("null": no WebSocket); orphans are the WebSockets
\* this.socket no longer refers to and whose close event is still to come;
\* timers are the delays of the pending reconnect timers.  The observers:
\* delay, the delay of the timer armed last; disconnected, the user has
\* called disconnect() and not connect() since; serverRoom, the room the
\* server holds this client in
SignalingCreated ==
  [socket |-> "null",
   orphans |-> <<>>,
   isConnected |-> FALSE,
   currentRoomId |-> NoRoomId,
   reconnectAttempts |-> 0,
   timers |-> <<>>,
   delay |-> 0,
   disconnected |-> FALSE,
   serverRoom |-> NoRoomId,
   op |-> "new"]

Init ==
  /\ ServerStarted
  /\ pair = NoPair
  /\ webrtc = ServiceCreated
  /\ ice = IceServiceCreated(FALSE)
  /\ limiter = LimiterCreated
  /\ media = MediaCreated
  /\ signaling = SignalingCreated

\* ------------------------------------------------------------- connection
\* io.on('connection'): a new socket with a fresh id
Connect(s) ==
  /\ conn[s] = "new"
  /\ conn' = [conn EXCEPT ![s] = "open"]
  /\ UNCHANGED clientVars
  /\ last' = Invocation("connection", s, NoRoomId, NoRoom, NoMsg)
  /\ emitted' = <<>>
  /\ UNCHANGED <<activeUsers, waitingUsers, activeRooms, nextRoomId, timers>>

\* socket.on('register-user')
UserInfo(s, userSession) ==
  [userId |-> userSession.userId, preferences |-> userSession.preferences,
   socketId |-> s]

RegisterUser(s, userSession) ==
  /\ conn[s] = "open"
  /\ activeUsers' = MapSet(activeUsers, s, UserInfo(s, userSession))
  /\ UNCHANGED clientVars
  /\ last' = Invocation("register-user", s, NoRoomId, NoRoom, NoMsg)
  /\ emitted' = <<Event("registration-success", s, [socketId |-> s])>>
  /\ UNCHANGED <<conn, waitingUsers, activeRooms, nextRoomId, timers>>

\* ------------------------------------------------------------- find-match
\* waitingUsers.delete(waitingUser)
PoolAfterMatchKept(w) == waitingUsers

PoolAfterMatch(w) == SetDelete(waitingUsers, w)

\* activeRooms.set(roomId, {user1: user1.socketId, user2: user2.socketId})
NewRoomSelf(w, s) ==
  [user1 |-> activeUsers[s].socketId, user2 |-> activeUsers[s].socketId]

NewRoom(w, s) ==
  [user1 |-> activeUsers[w].socketId, user2 |-> activeUsers[s].socketId]

Partner(u) ==
  [userId |-> activeUsers[u].userId, preferences |-> activeUsers[u].preferences]

\* socket.emit('match-found', ...) then io.to(waitingUser).emit('match-found', ...)
MatchEventsSwapped(roomId, w, s) ==
  << Event("match-found", s,
           [roomId |-> roomId, peerId |-> s, partner |-> Partner(w)]),
     Event("match-found", w,
           [roomId |-> roomId, peerId |-> w, partner |-> Partner(s)]) >>

MatchEvents(roomId, w, s) ==
  << Event("match-found", s,
           [roomId |-> roomId, peerId |-> w, partner |-> Partner(w)]),
     Event("match-found", w,
           [roomId |-> roomId, peerId |-> s, partner |-> Partner(s)]) >>

SearchStarted(s) ==
  Event("search-started", s, [isSearching |-> TRUE])

\* a find-match that puts a session that is not registered into the pool
FindMatchNotRegisteredWaits(s) ==
  /\ s \notin DOMAIN activeUsers
  /\ waitingUsers' = SetAdd(waitingUsers, s)
  /\ emitted' = <<Event("search-started", s, [isSearching |-> TRUE])>>
  /\ UNCHANGED clientVars
  /\ last' = Invocation("find-match", s, NoRoomId, NoRoom, NoMsg)
  /\ UNCHANGED <<conn, activeUsers, activeRooms, nextRoomId, timers>>

\* if (!user) { socket.emit('room-error', ...); return; }
FindMatchNotRegistered(s) ==
  /\ s \notin DOMAIN activeUsers
  /\ emitted' = <<Event("room-error", s, [message |-> "User not registered"])>>
  /\ UNCHANGED clientVars
  /\ last' = Invocation("find-match", s, NoRoomId, NoRoom, NoMsg)
  /\ UNCHANGED <<conn, activeUsers, waitingUsers, activeRooms, nextRoomId, timers>>

\* the two "ignoring find-match" returns
FindMatchIgnored(s) ==
  /\ s \in DOMAIN activeUsers
  /\ AlreadyInRoom(s) \/ AlreadyWaiting(s)
  /\ emitted' = <<>>
  /\ UNCHANGED clientVars
  /\ last' = Invocation("find-match", s, NoRoomId, NoRoom, NoMsg)
  /\ UNCHANGED <<conn, activeUsers, waitingUsers, activeRooms, nextRoomId, timers>>

\* if (waitingUser && waitingUser !== socket.id) { ... }
FindMatchPair(s) ==
  /\ s \in DOMAIN activeUsers
  /\ ~AlreadyInRoom(s)
  /\ ~AlreadyWaiting(s)
  /\ WaitingUser # NoSocket /\ WaitingUser # s
  /\ nextRoomId <= MaxRooms
  /\ LET w == WaitingUser
         roomId == nextRoomId
     IN /\ waitingUsers' = PoolAfterMatch(w)
        /\ activeRooms' = MapSet(activeRooms, roomId, NewRoom(w, s))
        /\ nextRoomId' = nextRoomId + 1
        /\ emitted' = MatchEvents(roomId, w, s)
        /\ timers' = MarkStale(timers, w)
        /\ UNCHANGED clientVars
        /\ last' = Invocation("find-match", s, roomId, NewRoom(w, s), NoMsg)
  /\ UNCHANGED <<conn, activeUsers>>

\* else { waitingUsers.add(socket.id); ...; setTimeout(..., 30000) }
FindMatchWait(s) ==
  /\ s \in DOMAIN activeUsers
  /\ ~AlreadyInRoom(s)
  /\ ~AlreadyWaiting(s)
  /\ ~(WaitingUser # NoSocket /\ WaitingUser # s)
  /\ waitingUsers' = SetAdd(waitingUsers, s)
  /\ emitted' = <<SearchStarted(s)>>
  /\ timers' = timers \cup {[sock |-> s, stale |-> FALSE]}
  /\ UNCHANGED clientVars
  /\ last' = Invocation("find-match", s, NoRoomId, NoRoom, NoMsg)
  /\ UNCHANGED <<conn, activeUsers, activeRooms, nextRoomId>>

\* socket.on('find-match')
FindMatch(s) ==
  /\ conn[s] = "open"
  /\ \/ FindMatchNotRegistered(s)
     \/ FindMatchIgnored(s)
     \/ FindMatchPair(s)
     \/ FindMatchWait(s)

\* the setTimeout callback of find-match.  Timers of one socket that are
\* stale are kept as one entry, so firing one may leave another pending.
NoMatchTimeout(t) ==
  /\ t \in timers
  /\ emitted' = IF t.sock \in SeqToSet(waitingUsers)
                THEN <<Event("no-match", t.sock, [message |-> "No match found"])>>
                ELSE <<>>
  /\ \/ timers' = timers \ {t}
     \/ t.stale /\ timers' = timers
  /\ UNCHANGED clientVars
  /\ last' = Invocation("timeout", t.sock, NoRoomId, NoRoom, NoMsg)
  /\ UNCHANGED <<conn, activeUsers, waitingUsers, activeRooms, nextRoomId>>

\* ------------------------------------------------------ signaling-message
\* the loop over activeRooms.entries(): the partner in the first room
\* that holds the sender
RelayTargetSelf(s) == IF FirstRoomOf(s) = NoRoomId THEN NoSocket ELSE s

RelayTarget(s) ==
  IF FirstRoomOf(s) = NoRoomId THEN NoSocket
  ELSE OtherUser(activeRooms[FirstRoomOf(s)], s)

\* { from: socket.id, ...message.data }: a from field of the sender wins
ForwardedFromKept(s, data) ==
  [payload |-> data.payload, from |-> IF data.from # 0 THEN data.from ELSE s]

\* { ...message.data, from: socket.id }
Forwarded(s, data) == [payload |-> data.payload, from |-> s]

\* if (targetRoom && targetUser) { io.to(targetUser).emit(message.type, ...) }
\* else { console.log(...) }
RelayEventsErrorReply(s, message) ==
  IF FirstRoomOf(s) # NoRoomId /\ RelayTarget(s) # NoSocket
  THEN <<Event(message.type, RelayTarget(s), Forwarded(s, message.data))>>
  ELSE <<Event("room-error", s, [message |-> "No active room"])>>

RelayEvents(s, message) ==
  IF FirstRoomOf(s) # NoRoomId /\ RelayTarget(s) # NoSocket
  THEN <<Event(message.type, RelayTarget(s), Forwarded(s, message.data))>>
  ELSE <<>>

\* socket.on('signaling-message')
SignalingMessage(s, message) ==
  /\ conn[s] = "open"
  /\ emitted' = RelayEvents(s, message)
  /\ UNCHANGED clientVars
  /\ last' = Invocation("signaling-message", s, FirstRoomOf(s),
                        IF FirstRoomOf(s) = NoRoomId THEN NoRoom
                        ELSE activeRooms[FirstRoomOf(s)], message)
  /\ UNCHANGED <<conn, activeUsers, waitingUsers, activeRooms, nextRoomId, timers>>

\* -------------------------------------------------------------- leave-room
\* activeRooms.delete(data.roomId)
RoomsAfterLeaveKept(roomId) == activeRooms

RoomsAfterLeave(roomId) == MapDelete(activeRooms, roomId)

\* socket.on('leave-room'): data.roomId is whatever the client sent
LeaveRoom(s, roomId) ==
  /\ conn[s] = "open"
  /\ IF roomId \in DOMAIN activeRooms
     THEN /\ emitted' = <<Event("user-left",
                                OtherUser(activeRooms[roomId], s), [from |-> s])>>
          /\ activeRooms' = RoomsAfterLeave(roomId)
          /\ UNCHANGED clientVars
          /\ last' = Invocation("leave-room", s, roomId, activeRooms[roomId], NoMsg)
     ELSE /\ emitted' = <<>>
          /\ activeRooms' = activeRooms
          /\ UNCHANGED clientVars
          /\ last' = Invocation("leave-room", s, roomId, NoRoom, NoMsg)
  /\ UNCHANGED <<conn, activeUsers, waitingUsers, nextRoomId, timers>>

\* -------------------------------------------------------------- disconnect
\* waitingUsers.delete(socket.id) of the disconnect handler
PoolAfterDisconnectKept(s) == waitingUsers

PoolAfterDisconnect(s) == SetDelete(waitingUsers, s)

\* the clean-up loop of the disconnect handler: the first room holding s
RoomsAfterDisconnectKept(s) == activeRooms

RoomsAfterDisconnect(s) ==
  IF FirstRoomOf(s) = NoRoomId THEN activeRooms
  ELSE MapDelete(activeRooms, FirstRoomOf(s))

DisconnectEvents(s) ==
  IF FirstRoomOf(s) = NoRoomId THEN <<>>
  ELSE <<Event("user-left", OtherUser(activeRooms[FirstRoomOf(s)], s),
               [from |-> s])>>

\* the body of socket.on('disconnect')
OnDisconnect(s) ==
  /\ waitingUsers' = PoolAfterDisconnect(s)
  /\ emitted' = DisconnectEvents(s)
  /\ activeRooms' = RoomsAfterDisconnect(s)
  /\ activeUsers' = MapDelete(activeUsers, s)
  /\ timers' = MarkStale(timers, s)
  /\ UNCHANGED clientVars
  /\ last' = Invocation("disconnect", s, FirstRoomOf(s),
                        IF FirstRoomOf(s) = NoRoomId THEN NoRoom
                        ELSE activeRooms[FirstRoomOf(s)], NoMsg)
  /\ UNCHANGED nextRoomId

\* the socket closes: socket.io fires 'disconnect'
Disconnect(s) ==
  /\ conn[s] = "open"
  /\ conn' = [conn EXCEPT ![s] = "closed"]
  /\ OnDisconnect(s)

\* a repeated disconnect signal for a socket that is already closed
DisconnectAgain(s) ==
  /\ conn[s] = "closed"
  /\ conn' = conn
  /\ OnDisconnect(s)

\* ---------------------------------------------------------------- get-stats
GetStats(s) ==
  /\ conn[s] = "open"
  /\ emitted' = <<Event("server-stats", s,
                        [activeUsers |-> Cardinality(DOMAIN activeUsers),
                         waitingUsers |-> Len(waitingUsers),
                         activeRooms |-> Cardinality(DOMAIN activeRooms)])>>
  /\ UNCHANGED clientVars
  /\ last' = Invocation("get-stats", s, NoRoomId, NoRoom, NoMsg)
  /\ UNCHANGED <<conn, activeUsers, waitingUsers, activeRooms, nextRoomId, timers>>

\* ------------------------------------------------------------------- Next
\* the userSession a client registers with
UserSessions == [userId : UserIds, preferences : Preferences]

\* the message a client puts in a signaling-message
Messages == [type : MsgTypes, data : [payload : Payloads, from : ForgedFrom]]

\* the data.roomId of a leave-room: the id of an active room, or an id the
\* Map does not hold (NoRoomId stands for every such id: activeRooms.get
\* returns undefined for each of them)
LeaveRoomIds == (DOMAIN activeRooms) \cup {NoRoomId}

\* The matchmaking events: connection, register-user, find-match, leave-room
\* and disconnect.
Next ==
  \/ \E s \in Sockets : Connect(s)
  \/ \E s \in Sockets : \E u \in UserSessions : RegisterUser(s, u)
  \/ \E s \in Sockets : FindMatch(s)
  \/ \E s \in Sockets : \E r \in LeaveRoomIds : LeaveRoom(s, r)
  \/ \E s \in Sockets : Disconnect(s)
  \/ \E s \in Sockets : DisconnectAgain(s)

Spec == Init /\ [][Next]_vars

\* The matchmaking events together with the relay (signaling-message) and
\* get-stats.
RelayNext ==
  \/ Next
  \/ \E s \in Sockets : \E m \in Messages : SignalingMessage(s, m)
  \/ \E s \in Sockets : GetStats(s)

RelaySpec == Init /\ [][RelayNext]_vars

\* All of the above and the 30 s timeout callbacks of find-match.
TimerNext ==
  \/ RelayNext
  \/ \E t \in timers : NoMatchTimeout(t)

TimerSpec == Init /\ [][TimerNext]_vars

\* =================================================================== claims
PoolSet == SeqToSet(waitingUsers)

EventsOfType(es, type) == {i \in 1..Len(es) : es[i].type = type}

\* the step is the handler op run for socket s
Ran(op, s) == last'.op = op /\ last'.sock = s

\* C1: whatever the order of register-user, find-match, leave-room and
\* disconnect events, no session is a participant of two active rooms: two
\* distinct rooms never share a participant (so a waiting session is paired
\* with at most one of the requests that find it waiting).
C1_NoSessionInTwoRooms ==
  \A r1, r2 \in DOMAIN activeRooms :
    r1 # r2 =>
      Participants(activeRooms[r1]) \cap Participants(activeRooms[r2]) = {}

\* W waited, two requests came: one was paired with W, the other now waits
C1_Witness ==
  /\ DOMAIN activeRooms # {}
  /\ last.op = "find-match"
  /\ emitted = <<SearchStarted(last.sock)>>
  /\ waitingUsers = <<last.sock>>

\* C2: no session is in the waiting pool and a participant of an active room
\* at the same time.
C2_PoolAndRoomsDisjoint ==
  \A s \in PoolSet : RoomsOf(s) = {}

\* a room participant asked for a match while another session waits
C2_Witness ==
  /\ waitingUsers # <<>>
  /\ last.op = "find-match"
  /\ RoomsOf(last.sock) # {}
  /\ last.roomId = NoRoomId

\* C3: a find-match from a session that is already waiting or already in a
\* room changes neither the registry, the pool nor the rooms, and emits no
\* match-found and no search-started event.
C3_DuplicateFindMatchIsNoOp ==
  [][\A s \in Sockets :
       (Ran("find-match", s) /\ (s \in PoolSet \/ RoomsOf(s) # {}))
       => /\ UNCHANGED <<activeUsers, waitingUsers, activeRooms>>
          /\ EventsOfType(emitted', "match-found") = {}
          /\ EventsOfType(emitted', "search-started") = {}]_vars

C3_Witness ==
  /\ last.op = "find-match"
  /\ last.sock \in PoolSet
  /\ emitted = <<>>

\* C4: every active room holds two session ids that differ, and when a room
\* is created neither of its participants is in the waiting pool.
C4_RoomsHoldTwoDistinct ==
  [][\A r \in DOMAIN activeRooms' :
       /\ activeRooms'[r].user1 \in Sockets
       /\ activeRooms'[r].user2 \in Sockets
       /\ activeRooms'[r].user1 # activeRooms'[r].user2
       /\ r \notin DOMAIN activeRooms
          => Participants(activeRooms'[r]) \cap SeqToSet(waitingUsers') = {}]_vars

C4_Witness ==
  /\ last.op = "find-match"
  /\ last.roomId \in DOMAIN activeRooms
  /\ activeRooms[last.roomId].user1 # activeRooms[last.roomId].user2

\* C5: a find-match from a registered session X that finds the pool empty
\* sends search-started to X and puts X in the pool; a find-match from another
\* registered session Y that finds X waiting creates one room and sends both a
\* match-found with that room's id, X's naming Y as peer and Y's naming X.
MatchFoundSent(es, to, roomId, peer) ==
  \E i \in 1..Len(es) :
    /\ es[i].type = "match-found"
    /\ es[i].to = to
    /\ es[i].body.roomId = roomId
    /\ es[i].body.peerId = peer

C5_SearchThenMatch ==
  [][/\ \A x \in Sockets :
          (/\ Ran("find-match", x)
           /\ x \in DOMAIN activeUsers
           /\ waitingUsers = <<>>
           /\ RoomsOf(x) = {})
          => /\ emitted' = <<SearchStarted(x)>>
             /\ conn'[x] = "open"
             /\ waitingUsers' = <<x>>
     /\ \A x, y \in Sockets :
          (/\ Ran("find-match", y)
           /\ y \in DOMAIN activeUsers
           /\ x # y
           /\ waitingUsers = <<x>>
           /\ RoomsOf(y) = {})
          => \E r \in DOMAIN activeRooms' :
               /\ DOMAIN activeRooms' = DOMAIN activeRooms \cup {r}
               /\ r \notin DOMAIN activeRooms
               /\ Participants(activeRooms'[r]) = {x, y}
               /\ Len(emitted') = 2
               /\ MatchFoundSent(emitted', x, r, y)
               /\ MatchFoundSent(emitted', y, r, x)
               /\ conn'[x] = "open" /\ conn'[y] = "open"]_vars

C5_Witness ==
  /\ last.op = "find-match"
  /\ Len(emitted) = 2
  /\ emitted[1].type = "match-found"
  /\ emitted[2].type = "match-found"
  /\ emitted[1].body.peerId = emitted[2].to

\* C6 (as amended): when a participant of a room disconnects, exactly one
\* user-left event is emitted, to the other participant, and the room is
\* removed; a repeated disconnect signal emits nothing and changes nothing; a
\* disconnect that follows the session's own leave-room emits no user-left
\* and changes no room and no pool entry: it only removes the session from
\* the registry.
DisconnectOfParticipant(s) ==
  (conn[s] = "open" /\ RoomsOf(s) # {})
  => \E r \in RoomsOf(s) :
       \E o \in Participants(activeRooms[r]) \ {s} :
         /\ emitted' = <<Event("user-left", o, [from |-> s])>>
         /\ conn'[o] = "open"
         /\ r \notin DOMAIN activeRooms'

RepeatedDisconnect(s) ==
  conn[s] = "closed"
  => /\ emitted' = <<>>
     /\ UNCHANGED <<activeUsers, waitingUsers, activeRooms>>

FollowsOwnLeave(s) ==
  /\ last.op = "leave-room"
  /\ last.sock = s
  /\ s \in Participants(last.room)

C6_DisconnectNotifiesOnce ==
  [][\A s \in Sockets :
       Ran("disconnect", s)
       => /\ DisconnectOfParticipant(s)
          /\ RepeatedDisconnect(s)
          /\ FollowsOwnLeave(s)
             => /\ emitted' = <<>>
                /\ UNCHANGED <<waitingUsers, activeRooms>>
                /\ activeUsers' = MapDelete(activeUsers, s)]_vars

C6_Witness ==
  /\ last.op = "disconnect"
  /\ conn[last.sock] = "closed"
  /\ Len(emitted) = 1
  /\ emitted[1].type = "user-left"
  /\ last.roomId \notin DOMAIN activeRooms

\* C6 as stated: ... a disconnect that follows the session's own leave-room
\* produces no further user-left event and no further state change.
C6_AsStated ==
  [][\A s \in Sockets :
       Ran("disconnect", s)
       => /\ DisconnectOfParticipant(s)
          /\ RepeatedDisconnect(s)
          /\ FollowsOwnLeave(s)
             => /\ emitted' = <<>>
                /\ UNCHANGED <<activeUsers, waitingUsers, activeRooms>>]_vars

\* C7: every session in the waiting pool and every participant of an active
\* room is registered and connected: a disconnect leaves no pool entry and no
\* room that refers to the removed session.
C7_NoOrphans ==
  \A s \in PoolSet \cup UNION {Participants(activeRooms[r]) : r \in DOMAIN activeRooms} :
    /\ s \in DOMAIN activeUsers
    /\ conn[s] = "open"

\* a participant disconnected mid-room while a third session waits
C7_Witness ==
  /\ last.op = "disconnect"
  /\ last.roomId # NoRoomId
  /\ conn[last.sock] = "closed"
  /\ waitingUsers # <<>>

\* C8: when participant X of a room sends leave-room for it, the other
\* participant Y is sent user-left and the room is deleted, leaving Y in no
\* room; a find-match that Y sends next is accepted: Y is put in the pool or
\* paired into a new room.
C8_LeaveFreesPartner ==
  [][/\ \A x \in Sockets : \A r \in DOMAIN activeRooms :
          (/\ Ran("leave-room", x)
           /\ last'.roomId = r
           /\ x \in Participants(activeRooms[r]))
          => \E y \in Participants(activeRooms[r]) \ {x} :
               /\ emitted' = <<Event("user-left", y, [from |-> x])>>
               /\ conn'[y] = "open"
               /\ r \notin DOMAIN activeRooms'
               /\ RoomsIn(activeRooms', y) = {}
     /\ \A y \in Sockets :
          (/\ last.op = "leave-room"
           /\ last.sock \in Participants(last.room)
           /\ y \in Participants(last.room) \ {last.sock}
           /\ Ran("find-match", y))
          => /\ \/ y \in SeqToSet(waitingUsers')
                \/ RoomsIn(activeRooms', y) # {}
             /\ \/ emitted' = <<SearchStarted(y)>>
                \/ EventsOfType(emitted', "match-found") # {}]_vars

C8_Witness ==
  /\ last.op = "leave-room"
  /\ last.sock \in Participants(last.room)
  /\ Len(emitted) = 1
  /\ emitted[1].type = "user-left"
  /\ emitted[1].to \in Participants(last.room) \ {last.sock}
  /\ RoomsOf(emitted[1].to) = {}

\* C9: a room leaves the set of active rooms only through a leave-room or a
\* disconnect of one of its two participants; a leave-room from a session that
\* is no participant of the room it names changes no room and sends user-left
\* to nobody.
C9_OnlyParticipantsDestroy ==
  [][/\ \A r \in DOMAIN activeRooms :
          r \notin DOMAIN activeRooms'
          => /\ last'.op \in {"leave-room", "disconnect"}
             /\ last'.sock \in Participants(activeRooms[r])
     /\ \A s \in Sockets : \A r \in DOMAIN activeRooms :
          (/\ Ran("leave-room", s)
           /\ last'.roomId = r
           /\ s \notin Participants(activeRooms[r]))
          => /\ activeRooms' = activeRooms
             /\ EventsOfType(emitted', "user-left") = {}]_vars

\* C10: a signaling-message from sender S is forwarded to at most one session;
\* when S is in a room it is forwarded to exactly one, the other participant
\* of that room, who is connected and is not S, and to nobody outside it.
C10_RelayToPartnerOnly ==
  last.op = "signaling-message"
  => /\ Len(emitted) <= 1
     /\ RoomsOf(last.sock) # {} => Len(emitted) = 1
     /\ \A i \in 1..Len(emitted) :
          /\ emitted[i].to # last.sock
          /\ conn[emitted[i].to] = "open"
          /\ \E r \in DOMAIN activeRooms :
               /\ RoomsOf(last.sock) = {r}
               /\ Participants(activeRooms[r]) = {last.sock, emitted[i].to}

\* a message was relayed while a connected session outside the room exists
C10_Witness ==
  /\ last.op = "signaling-message"
  /\ Len(emitted) = 1
  /\ \E s \in Sockets : conn[s] = "open" /\ s \notin Participants(last.room)

\* C11: a signaling-message from a sender that is in no active room is
\* dropped: no event is emitted, to the sender or to anybody else, and the
\* registry, the pool and the rooms are unchanged.
C11_NoRoomMessageDropped ==
  [][\A s \in Sockets :
       (Ran("signaling-message", s) /\ RoomsOf(s) = {})
       => /\ emitted' = <<>>
          /\ UNCHANGED <<conn, activeUsers, waitingUsers, activeRooms,
                         nextRoomId, timers>>]_vars

\* a session waiting in the pool sent an offer
C11_Witness ==
  /\ last.op = "signaling-message"
  /\ last.msg.type = "offer"
  /\ last.sock \in PoolSet
  /\ RoomsOf(last.sock) = {}
  /\ emitted = <<>>

\* SecurityConfig.content.allowedMessageTypes
allowedMessageTypes ==
  {"register-user", "find-match", "offer", "answer", "ice-candidate",
   "leave-room", "get-stats"}

\* SecurityUtils.isValidMessageType
isValidMessageType(type) == type \in allowedMessageTypes

\* C12: the relay forwards no message whose type is outside the allow-list:
\* every event a signaling-message makes the server emit has an allowed type.
C12_OnlyAllowedTypesForwarded ==
  last.op = "signaling-message"
  => \A i \in 1..Len(emitted) : isValidMessageType(emitted[i].type)

\* ======================================================== client: roles
\* Two clients matched into one room each decide, on their own, whether to
\* send the offer (hooks/useCallState.ts handleMatchFound and
\* hooks/useWebRTC.ts handleRoomJoined).

\* socket ids are strings; a string is the sequence of its UTF-16 code units
\* ("A" is 65, "a" is 97)
MaxIdLen == 2
CodeUnits == {65, 97}
SocketIds == UNION {[1..n -> CodeUnits] : n \in 1..MaxIdLen}
\* signalingService.getSocketId() before any 'connect' message: null
NoId == <<>>

Clients == {1, 2}
OtherClient(c) == 3 - c

\* p is a prefix of q
IsStringPrefix(p, q) == Len(p) <= Len(q) /\ SubSeq(q, 1, Len(p)) = p

\* the comparison of lengths alone
StringLessThanByLength(px, py) == Len(px) < Len(py)

\* px < py on two strings, as JavaScript evaluates it: a proper prefix is
\* smaller; otherwise the code units at the first differing index decide
StringLessThan(px, py) ==
  IF IsStringPrefix(py, px) THEN FALSE
  ELSE IF IsStringPrefix(px, py) THEN TRUE
  ELSE LET k == CHOOSE i \in 1..Len(px) :
                  /\ px[i] # py[i]
                  /\ \A j \in 1..(i - 1) : px[j] = py[j]
       IN px[k] < py[k]

\* const shouldCreateOffer = mySocketId && mySocketId < data.peerId
ShouldCreateOffer(mySocketId, peerId) ==
  mySocketId # NoId /\ StringLessThan(mySocketId, peerId)

\* what getSocketId() returns at client c
MySocketId(c) == IF pair.known[c] THEN pair.ids[c] ELSE NoId
\* the peerId the server put in the match-found event for client c
PeerId(c) == pair.ids[OtherClient(c)]

\* the pairs of clients the server can match: two distinct socket ids, each
\* client knowing its own id or not
RoleInit ==
  /\ ServerStarted
  /\ webrtc = ServiceCreated
  /\ ice = IceServiceCreated(FALSE)
  /\ limiter = LimiterCreated
  /\ media = MediaCreated
  /\ signaling = SignalingCreated
  /\ \E a \in SocketIds, b \in SocketIds, k \in [Clients -> BOOLEAN] :
       /\ a # b
       /\ pair = [ids |-> <<a, b>>,
               known |-> k,
               role |-> [c \in Clients |-> "undetermined"],
               offerTimer |-> [c \in Clients |-> FALSE],
               offersCreated |-> [c \in Clients |-> 0]]

\* useCallState.ts handleMatchFound: the offerer arms a 100 ms timer, the
\* other side waits for the offer
HandleMatchFound(c) ==
  /\ pair.role[c] = "undetermined"
  /\ pair' = IF ShouldCreateOffer(MySocketId(c), PeerId(c))
             THEN [pair EXCEPT !.role[c] = "offerer", !.offerTimer[c] = TRUE]
             ELSE [pair EXCEPT !.role[c] = "answerer"]
  /\ UNCHANGED <<serverVars, webrtc, ice, limiter, media, signaling>>

\* useWebRTC.ts handleRoomJoined: returns early without a socket id,
\* otherwise as above with a 1 s timer
HandleRoomJoined(c) ==
  /\ pair.role[c] = "undetermined"
  /\ MySocketId(c) # NoId
  /\ pair' = IF StringLessThan(MySocketId(c), PeerId(c))
             THEN [pair EXCEPT !.role[c] = "offerer", !.offerTimer[c] = TRUE]
             ELSE [pair EXCEPT !.role[c] = "answerer"]
  /\ UNCHANGED <<serverVars, webrtc, ice, limiter, media, signaling>>

\* if (!mySocketId) { console.error(...); return; }
HandleRoomJoinedNoId(c) ==
  /\ pair.role[c] = "undetermined"
  /\ MySocketId(c) = NoId
  /\ pair' = [pair EXCEPT !.role[c] = "none"]
  /\ UNCHANGED <<serverVars, webrtc, ice, limiter, media, signaling>>

\* the setTimeout callback of the offerer: webRTCService.createOffer(peerId)
OfferTimerFires(c) ==
  /\ pair.offerTimer[c]
  /\ pair' = [pair EXCEPT !.offerTimer[c] = FALSE,
                          !.offersCreated[c] = @ + 1]
  /\ UNCHANGED <<serverVars, webrtc, ice, limiter, media, signaling>>

RoleNext ==
  \/ \E c \in Clients : HandleMatchFound(c)
  \/ \E c \in Clients : HandleRoomJoined(c)
  \/ \E c \in Clients : HandleRoomJoinedNoId(c)
  \/ \E c \in Clients : OfferTimerFires(c)

RoleSpec == RoleInit /\ [][RoleNext]_vars

\* a is lexicographically smaller than b: at the first index where they
\* differ a has the smaller code unit, or a ends there
LexSmaller(a, b) ==
  \E k \in 1..Len(b) :
    /\ k <= Len(a) + 1
    /\ \A i \in 1..(k - 1) : a[i] = b[i]
    /\ k = Len(a) + 1 \/ a[k] < b[k]

BothDecided ==
  /\ \A c \in Clients : pair.known[c]
  /\ \A c \in Clients : pair.role[c] # "undetermined"

MaxTasks == 2
MaxRetries == 2

\* the peers the server may match this client with
Peers == {"pa"}
\* an SDP text: its first 50 characters (head) and the rest (tail)
Sdps ==
  {[head |-> "v1", tail |-> "x"], [head |-> "v1", tail |-> "y"],
   [head |-> "v2", tail |-> "x"]}
\* a missing sdp
NoSdp == [head |-> "", tail |-> ""]
\* the {type, sdp} objects a peer may send as an offer or answer: complete
\* ones, one without its type and one without its sdp
Descriptions(type, sdps) ==
  [type : {type}, sdp : sdps]
    \cup {[type |-> "", sdp |-> CHOOSE x \in sdps : TRUE],
          [type |-> type, sdp |-> NoSdp]}
\* the payload of an offer or answer event: {offer | answer: {type, sdp}, from}
SignalingData(type, sdps) == [desc : Descriptions(type, sdps), from : Peers]
\* the offers differ in nothing the client looks at but their completeness
OfferData == SignalingData("offer", {CHOOSE x \in Sdps : TRUE})
AnswerData == SignalingData("answer", Sdps)

\* ghost counters count 0, 1, "2 or more"
Count(n) == IF n < 2 THEN n + 1 ELSE 2

\* the calls of RTCPeerConnection that return a promise
NativeCalls ==
  {"createOffer", "createAnswer", "setLocalDescription", "setRemoteDescription"}

\* a suspended invocation of the async function fn, waiting at await, for
\* peer; it waits at "closed" once the peer connection it called has been
\* closed
Task(fn, await, peer) == [fn |-> fn, await |-> await, peer |-> peer]

\* a pending setTimeout callback
Timeout(kind, peer) == [kind |-> kind, peer |-> peer]

\* new RTCPeerConnection(config)
NewPc ==
  [signalingState |-> "stable",
   iceConnectionState |-> "new",
   localDescription |-> FALSE,
   remoteDescription |-> FALSE]

\* the start of a callback
Begin(w, op) == [w EXCEPT !.op = op, !.emits = {}, !.answersApplied = 0]

\* this.emit(event, ...)
Emit(w, event) == [w EXCEPT !.emits = @ \cup {event}]

\* signalingService.sendOffer(offer, peerId); offered: an offer has been
\* sent in this room membership
SendOffer(w) == Emit([w EXCEPT !.offered = TRUE], "sendOffer")

\* signalingService.sendAnswer(answer, from)
SendAnswer(w) == Emit([w EXCEPT !.answered = TRUE], "sendAnswer")

\* the suspended invocations, in the order in which they made the call they
\* wait for; two invocations may be at the same await with the same arguments
Suspend(w, t) == [w EXCEPT !.tasks = Append(@, t)]

\* the position of the invocation t that waits longest
FirstIndex(tasks, t) ==
  CHOOSE i \in DOMAIN tasks :
    tasks[i] = t /\ \A j \in 1..(i - 1) : tasks[j] # t

RemoveTask(w, t) ==
  LET i == FirstIndex(w.tasks, t)
  IN [w EXCEPT !.tasks = SubSeq(@, 1, i - 1) \o SubSeq(@, i + 1, Len(@))]

AwaitNext(w, t, await) ==
  Suspend(RemoveTask(w, t), [t EXCEPT !.await = await])

Suspended(w) == {w.tasks[i] : i \in DOMAIN w.tasks}

\* RTCPeerConnection runs the calls made on it one after the other, in the
\* order in which they were made (its operations chain): of the invocations
\* waiting for a call on the connection, the one that called first resumes
\* first. Timers and rejections of calls on a closed connection are not
\* ordered with them
Settled(w) ==
  {t \in Suspended(w) :
     t.await \in NativeCalls
       => \A j \in 1..(FirstIndex(w.tasks, t) - 1) :
            w.tasks[j].await \notin NativeCalls}

\* at most MaxTasks invocations are suspended at a time
TasksBounded(w) == Len(w.tasks) <= MaxTasks

\* if (this.peerConnection) { this.peerConnection.close(); this.peerConnection = null; }
\* the calls pending on the closed connection will not succeed
CloseTask(t) ==
  IF t.await \in NativeCalls THEN [t EXCEPT !.await = "closed"] ELSE t

ClosePeerConnection(w) ==
  [w EXCEPT !.peerConnection = NoPc, !.tasks = [i \in DOMAIN @ |-> CloseTask(@[i])]]

\* createPeerConnection(): this.peerConnection = new RTCPeerConnection(config);
\* a connection it replaces is not closed, but the calls pending on it no
\* longer act on this.peerConnection
CreatePeerConnection(w) == [ClosePeerConnection(w) EXCEPT !.peerConnection = NewPc]

\* RTCPeerConnection: createOffer is valid in stable and have-local-offer
CanCreateOffer(pc) == pc.signalingState \in {"stable", "have-local-offer"}
\* createAnswer is valid once a remote offer is set
CanCreateAnswer(pc) == pc.signalingState = "have-remote-offer"

\* a connection that accepts any description in any state
CanSetDescriptionAlways(pc, side, type) == pc # NoPc

\* RTCPeerConnection: the signaling states in which a description of this
\* type may be set as the local or the remote one
CanSetDescription(pc, side, type) ==
  CASE side = "local" /\ type = "offer" ->
         pc.signalingState \in {"stable", "have-local-offer"}
    [] side = "local" /\ type = "answer" ->
         pc.signalingState = "have-remote-offer"
    [] side = "remote" /\ type = "offer" ->
         pc.signalingState \in {"stable", "have-remote-offer"}
    [] side = "remote" /\ type = "answer" ->
         pc.signalingState = "have-local-offer"

\* and the connection after it is set
SetDescription(pc, side, type) ==
  [pc EXCEPT
     !.signalingState =
        IF type = "answer" THEN "stable"
        ELSE IF side = "local" THEN "have-local-offer" ELSE "have-remote-offer",
     !.localDescription = IF side = "local" THEN TRUE ELSE @,
     !.remoteDescription = IF side = "remote" THEN TRUE ELSE @]

\* ------------------------------------------------------------ createOffer
\* the catch block of createOffer
CreateOfferCatch(w) ==
  Emit([w EXCEPT !.isConnecting = FALSE], "connectionError")

\* createOffer(peerId) up to `await this.peerConnection!.createOffer(...)`
CreateOfferBegin(w, peerId) ==
  IF w.offerSent THEN w
  ELSE IF w.isConnected THEN w
  ELSE LET w1 == Emit([w EXCEPT !.currentPeerId = peerId,
                                !.isConnecting = TRUE,
                                !.isConnected = FALSE], "connecting")
           w2 == IF w1.peerConnection = NoPc THEN CreatePeerConnection(w1)
                 ELSE w1
       IN Suspend(w2, Task("createOffer", "createOffer", peerId))

\* createOffer from the promise of createOffer or of setLocalDescription on:
\* setLocalDescription(offer), then signalingService.sendOffer and
\* this.offerSent = true
CreateOfferResume(w, t) ==
  LET pc == w.peerConnection
  IN IF t.await = "closed" THEN CreateOfferCatch(RemoveTask(w, t))
     ELSE IF t.await = "createOffer"
     THEN IF CanCreateOffer(pc) THEN AwaitNext(w, t, "setLocalDescription")
          ELSE CreateOfferCatch(RemoveTask(w, t))
     ELSE IF CanSetDescription(pc, "local", "offer")
     THEN SendOffer([RemoveTask(w, t) EXCEPT
                       !.peerConnection = SetDescription(pc, "local", "offer"),
                       !.offerSent = TRUE])
     ELSE CreateOfferCatch(RemoveTask(w, t))

\* webRTCService.createOffer(peerId), a public method of the service
CreateOffer(peerId) ==
  /\ webrtc.inRoom
  /\ webrtc' = CreateOfferBegin(Begin(webrtc, "createOffer"), peerId)
  /\ TasksBounded(webrtc')
  /\ UNCHANGED <<serverVars, pair, ice, limiter, media, signaling>>

CreateOfferStep(t) ==
  /\ t \in Settled(webrtc)
  /\ t.fn = "createOffer"
  /\ webrtc' = CreateOfferResume(Begin(webrtc, "resume"), t)
  /\ UNCHANGED <<serverVars, pair, ice, limiter, media, signaling>>

\* a call pending on a closed connection may also never settle
TaskAbandoned(t) ==
  /\ t \in Settled(webrtc)
  /\ t.await = "closed"
  /\ webrtc' = RemoveTask(Begin(webrtc, "resume"), t)
  /\ UNCHANGED <<serverVars, pair, ice, limiter, media, signaling>>

\* --------------------------------------------------------------- the hook
\* match-found / room-joined: the hook decides the role; the offerer arms
\* the timer that calls createOffer
MatchFound(peerId, shouldCreateOffer) ==
  /\ ~webrtc.inRoom
  /\ webrtc' = [Begin(webrtc, "match-found") EXCEPT
                  !.inRoom = TRUE,
                  !.offerer = shouldCreateOffer,
                  !.offered = FALSE,
                  !.answered = FALSE,
                  !.recovered = FALSE,
                  !.timeouts = IF shouldCreateOffer
                               THEN @ \cup {Timeout("offer", peerId)} ELSE @]
  /\ UNCHANGED <<serverVars, pair, ice, limiter, media, signaling>>

\* the timer callback of the offerer:
\* if (!currentState.isConnected && !currentState.isConnecting) createOffer(peerId)
OfferTimeout(t) ==
  /\ t \in webrtc.timeouts
  /\ t.kind = "offer"
  /\ LET w == [Begin(webrtc, "timeout") EXCEPT !.timeouts = @ \ {t}]
     IN webrtc' = IF ~w.isConnected /\ ~w.isConnecting
                  THEN CreateOfferBegin(w, t.peer) ELSE w
  /\ TasksBounded(webrtc')
  /\ UNCHANGED <<serverVars, pair, ice, limiter, media, signaling>>

\* ---------------------------------------------------------------- endCall
\* endCall()
EndCallService(w) ==
  Emit([ClosePeerConnection(w) EXCEPT
          !.currentPeerId = NoPeer,
          !.isConnected = FALSE,
          !.isConnecting = FALSE], "callEnded")

\* an endCall that releases every stream
EndCallStreamsAll(m) == MediaCreated

\* endCall(), its stream fields: "Only clear remote stream, preserve local
\* stream"
EndCallStreams(m) ==
  [m EXCEPT !.remoteStream = NoStream,
            !.hasRemoteStream = FALSE,
            !.stateRemoteStream = NoStream]

\* the hook's endCall / nextUser: webRTCService.endCall(), then
\* signalingService.leaveCurrentMatch()
EndCall ==
  /\ webrtc.inRoom
  /\ webrtc' = [EndCallService(Begin(webrtc, "endCall")) EXCEPT
                  !.inRoom = FALSE, !.offerer = FALSE]
  /\ media' = EndCallStreams(media)
  /\ UNCHANGED <<serverVars, pair, ice, limiter, signaling>>

\* 'user-left' from the server: handleUserLeft() calls endCall()
UserLeft ==
  /\ webrtc.inRoom
  /\ webrtc' = [EndCallService(Begin(webrtc, "user-left")) EXCEPT
                  !.inRoom = FALSE, !.offerer = FALSE]
  /\ media' = EndCallStreams(media)
  /\ UNCHANGED <<serverVars, pair, ice, limiter, signaling>>

\* ------------------------------------------------------------ handleOffer
\* a test that looks at the type only
ValidDescriptionTypeOnly(desc) == desc.type # ""

\* if (!offer?.type || !offer?.sdp)
ValidDescription(desc) == desc.type # "" /\ desc.sdp # NoSdp

\* the catch block of handleOffer
HandleOfferCatch(w) == Emit(w, "connectionError")

\* handleOffer(data) up to `await this.peerConnection!.setRemoteDescription(...)`
HandleOfferBegin(w, data) ==
  IF w.answerSent \/ w.isConnected THEN w
  ELSE IF w.peerConnection # NoPc /\ w.peerConnection.signalingState # "stable"
  THEN w
  ELSE IF ~ValidDescription(data.desc) THEN w
  ELSE LET w1 == [w EXCEPT !.currentPeerId = data.from]
           w2 == IF w1.peerConnection = NoPc THEN CreatePeerConnection(w1)
                 ELSE w1
       IN Suspend(w2, Task("handleOffer", "setRemoteDescription", data.from))

\* handleOffer from the promise of setRemoteDescription, createAnswer or
\* setLocalDescription on: the answer is sent after setLocalDescription, then
\* this.answerSent = true
HandleOfferResume(w, t) ==
  LET pc == w.peerConnection
  IN IF t.await = "closed" THEN HandleOfferCatch(RemoveTask(w, t))
     ELSE IF t.await = "setRemoteDescription"
     THEN IF ~CanSetDescription(pc, "remote", "offer")
          THEN HandleOfferCatch(RemoveTask(w, t))
          ELSE LET w1 == [w EXCEPT !.peerConnection =
                                     SetDescription(pc, "remote", "offer")]
               IN IF w1.peerConnection.signalingState # "have-remote-offer"
                  THEN RemoveTask(w1, t)
                  ELSE IF w1.answerSent THEN RemoveTask(w1, t)
                  ELSE AwaitNext(w1, t, "createAnswer")
     ELSE IF t.await = "createAnswer"
     THEN IF CanCreateAnswer(pc) THEN AwaitNext(w, t, "setLocalDescription")
          ELSE HandleOfferCatch(RemoveTask(w, t))
     ELSE IF CanSetDescription(pc, "local", "answer")
     THEN SendAnswer([RemoveTask(w, t) EXCEPT
                        !.peerConnection = SetDescription(pc, "local", "answer"),
                        !.answerSent = TRUE])
     ELSE HandleOfferCatch(RemoveTask(w, t))

\* signalingService.emit('offer', data) runs the listeners in registration
\* order: the one of setupSignalingListeners, then the one of the hook; both
\* call handleOffer(data)
OfferListeners(w, data) == HandleOfferBegin(HandleOfferBegin(w, data), data)

OfferReceived(data) ==
  /\ webrtc.inRoom
  /\ webrtc' = OfferListeners(Begin(webrtc, "offer"), data)
  /\ TasksBounded(webrtc')
  /\ UNCHANGED <<serverVars, pair, ice, limiter, media, signaling>>

HandleOfferStep(t) ==
  /\ t \in Settled(webrtc)
  /\ t.fn = "handleOffer"
  /\ webrtc' = HandleOfferResume(Begin(webrtc, "resume"), t)
  /\ UNCHANGED <<serverVars, pair, ice, limiter, media, signaling>>

\* ----------------------------------------------------------- handleAnswer
\* answer.sdp.substring(0, 50)
Substring50(sdp) == sdp.head

\* const answerKey = `${from}_${answer.sdp.substring(0, 50)}`
AnswerKey(from, sdp) == <<from, Substring50(sdp)>>

\* handleAnswer without the duplicate check
HandleAnswerNoDedup(w, data) ==
  IF w.isConnected THEN w
  ELSE IF w.peerConnection = NoPc THEN w
  ELSE IF w.peerConnection.signalingState # "have-local-offer" THEN w
  ELSE IF ~ValidDescription(data.desc) THEN w
  ELSE Suspend([w EXCEPT !.lastProcessedAnswerKey =
                            AnswerKey(data.from, data.desc.sdp),
                         !.answersApplied = Count(@)],
               Task("handleAnswer", "setRemoteDescription", data.from))

\* handleAnswer(data) up to `await this.peerConnection.setRemoteDescription(...)`
HandleAnswerBegin(w, data) ==
  IF w.isConnected THEN w
  ELSE IF w.peerConnection = NoPc THEN w
  ELSE IF w.peerConnection.signalingState = "stable" THEN w
  ELSE IF w.peerConnection.signalingState
            \notin {"have-local-offer", "have-remote-pranswer"} THEN w
  ELSE IF ~ValidDescription(data.desc) THEN w
  ELSE IF w.lastProcessedAnswerKey = AnswerKey(data.from, data.desc.sdp) THEN w
  ELSE Suspend([w EXCEPT !.lastProcessedAnswerKey =
                            AnswerKey(data.from, data.desc.sdp),
                         !.answersApplied = Count(@)],
               Task("handleAnswer", "setRemoteDescription", data.from))

\* handleAnswer from the promise of setRemoteDescription on; its catch block
\* only logs
HandleAnswerResume(w, t) ==
  LET pc == w.peerConnection
  IN IF t.await = "closed" THEN RemoveTask(w, t)
     ELSE IF CanSetDescription(pc, "remote", "answer")
     THEN [RemoveTask(w, t) EXCEPT
             !.peerConnection = SetDescription(pc, "remote", "answer")]
     ELSE RemoveTask(w, t)

\* signalingService.emit('answer', data): the listener of
\* setupSignalingListeners, then the one of the hook
AnswerListeners(w, data) == HandleAnswerBegin(HandleAnswerBegin(w, data), data)

AnswerReceived(data) ==
  /\ webrtc.inRoom
  /\ webrtc' = AnswerListeners(Begin(webrtc, "answer"), data)
  /\ TasksBounded(webrtc')
  /\ UNCHANGED <<serverVars, pair, ice, limiter, media, signaling>>

HandleAnswerStep(t) ==
  /\ t \in Settled(webrtc)
  /\ t.fn = "handleAnswer"
  /\ webrtc' = HandleAnswerResume(Begin(webrtc, "resume"), t)
  /\ UNCHANGED <<serverVars, pair, ice, limiter, media, signaling>>

\* ------------------------------------------------- failure and recovery
\* handleConnectionFailure() up to `await new Promise(... setTimeout(resolve, 2000))`
HandleConnectionFailureBegin(w) ==
  Suspend([ClosePeerConnection(w) EXCEPT !.connectionRetries = @ + 1],
          Task("handleConnectionFailure", "setTimeout", NoPeer))

\* handleConnectionFailure after the delay: createPeerConnection(useTurnOnly),
\* then emit('reconnecting')
HandleConnectionFailureResume(w, t) ==
  Emit(CreatePeerConnection(RemoveTask(w, t)), "reconnecting")

\* attemptReconnection() up to `await new Promise(... setTimeout(resolve, 1000))`
AttemptReconnectionBegin(w) ==
  IF w.isConnected \/ w.isConnecting THEN w
  ELSE Suspend([ClosePeerConnection(w) EXCEPT !.offerSent = FALSE,
                                              !.answerSent = FALSE,
                                              !.recovered = TRUE],
               Task("attemptReconnection", "setTimeout", NoPeer))

\* attemptReconnection after the delay: createPeerConnection(), then
\* emit('readyForNewConnection')
AttemptReconnectionResume(w, t) ==
  Emit(CreatePeerConnection(RemoveTask(w, t)), "readyForNewConnection")

HandleConnectionFailureStep(t) ==
  /\ t \in Settled(webrtc)
  /\ t.fn = "handleConnectionFailure"
  /\ webrtc' = HandleConnectionFailureResume(Begin(webrtc, "resume"), t)
  /\ UNCHANGED <<serverVars, pair, ice, limiter, media, signaling>>

AttemptReconnectionStep(t) ==
  /\ t \in Settled(webrtc)
  /\ t.fn = "attemptReconnection"
  /\ webrtc' = AttemptReconnectionResume(Begin(webrtc, "resume"), t)
  /\ UNCHANGED <<serverVars, pair, ice, limiter, media, signaling>>

\* ------------------------------------------- peer connection callbacks
\* ICE starts checking once both descriptions are set
Negotiated(pc) == pc.localDescription /\ pc.remoteDescription

\* the iceConnectionState changes the ICE agent can report
IceTransitions(pc) ==
  CASE pc.iceConnectionState = "new" ->
         IF Negotiated(pc) THEN {"checking"} ELSE {}
    [] pc.iceConnectionState = "checking" ->
         {"connected", "failed", "disconnected"}
    [] pc.iceConnectionState = "connected" -> {"disconnected", "failed"}
    [] pc.iceConnectionState = "disconnected" ->
         {"connected", "checking", "failed"}
    [] pc.iceConnectionState = "failed" -> {"checking"}

\* restartIce(): `await this.peerConnection.restartIce()`, and
\* handleConnectionFailure() when that throws
RestartIce(w, throws) ==
  IF w.peerConnection # NoPc /\ w.currentPeerId # NoPeer /\ throws
  THEN HandleConnectionFailureBegin(w) ELSE w

\* the oniceconnectionstatechange callback
OnIceConnectionStateChange(w, iceState, throws) ==
  CASE iceState = "failed" ->
         [RestartIce([w EXCEPT !.isConnected = FALSE, !.isConnecting = FALSE],
                     throws)
            EXCEPT !.timeouts = @ \cup {Timeout("ice-recover", NoPeer)}]
    [] iceState = "connected" ->
         Emit([w EXCEPT !.isConnecting = FALSE,
                        !.isConnected = TRUE,
                        !.connectionRetries = 0], "connected")
    [] iceState = "disconnected" ->
         [Emit([w EXCEPT !.isConnected = FALSE], "disconnected")
            EXCEPT !.timeouts = @ \cup {Timeout("ice-recover", NoPeer)}]
    [] iceState = "checking" ->
         [Emit([w EXCEPT !.isConnecting = TRUE], "connecting")
            EXCEPT !.timeouts = @ \cup {Timeout("ice-checking", NoPeer)}]

IceConnectionStateChange(iceState, throws) ==
  /\ webrtc.peerConnection # NoPc
  /\ iceState \in IceTransitions(webrtc.peerConnection)
  /\ throws => iceState = "failed" /\ webrtc.connectionRetries < MaxRetries
  /\ webrtc' = OnIceConnectionStateChange(
                 [Begin(webrtc, "pc-event") EXCEPT
                    !.peerConnection.iceConnectionState = iceState],
                 iceState, throws)
  /\ TasksBounded(webrtc')
  /\ UNCHANGED <<serverVars, pair, ice, limiter, media, signaling>>

\* the connectionState that goes with an iceConnectionState
ConnectionStateOf(pc) ==
  CASE pc.iceConnectionState = "checking" -> "connecting"
    [] pc.iceConnectionState = "connected" -> "connected"
    [] pc.iceConnectionState = "disconnected" -> "disconnected"
    [] pc.iceConnectionState = "failed" -> "failed"
    [] OTHER -> "new"

\* the onconnectionstatechange callback; 'closed' is not reported for a
\* connection this.peerConnection no longer refers to
OnConnectionStateChange(w, state) ==
  CASE state = "connected" ->
         Emit([w EXCEPT !.isConnected = TRUE, !.isConnecting = FALSE],
              "connected")
    [] state = "disconnected" ->
         Emit([w EXCEPT !.isConnected = FALSE, !.isConnecting = FALSE],
              "disconnected")
    [] state = "failed" ->
         HandleConnectionFailureBegin(
           [w EXCEPT !.isConnected = FALSE, !.isConnecting = FALSE])
    [] state = "connecting" ->
         Emit([w EXCEPT !.isConnecting = TRUE], "connecting")

ConnectionStateChange ==
  /\ webrtc.peerConnection # NoPc
  /\ ConnectionStateOf(webrtc.peerConnection) # "new"
  /\ ConnectionStateOf(webrtc.peerConnection) = "failed"
       => webrtc.connectionRetries < MaxRetries
  /\ webrtc' = OnConnectionStateChange(Begin(webrtc, "pc-event"),
                                       ConnectionStateOf(webrtc.peerConnection))
  /\ TasksBounded(webrtc')
  /\ UNCHANGED <<serverVars, pair, ice, limiter, media, signaling>>

\* the timers armed by oniceconnectionstatechange:
\*   ice-recover (failed, 5 s and disconnected, 3 s, the same callback):
\*     if (!this.state.isConnected) attemptReconnection()
\*   ice-checking (8 s): if still checking, handleConnectionFailure()
OnIceTimeout(w, t) ==
  IF t.kind = "ice-checking"
  THEN IF w.peerConnection # NoPc
          /\ w.peerConnection.iceConnectionState = "checking"
       THEN HandleConnectionFailureBegin(w) ELSE w
  ELSE IF ~w.isConnected THEN AttemptReconnectionBegin(w) ELSE w

IceTimeout(t) ==
  /\ t \in webrtc.timeouts
  /\ t.kind \in {"ice-recover", "ice-checking"}
  /\ t.kind = "ice-checking" => webrtc.connectionRetries < MaxRetries
  /\ webrtc' = OnIceTimeout([Begin(webrtc, "timeout") EXCEPT !.timeouts = @ \ {t}], t)
  /\ TasksBounded(webrtc')
  /\ UNCHANGED <<serverVars, pair, ice, limiter, media, signaling>>

\* --------------------------------------------------------- specification
ClientNext ==
  \/ \E p \in Peers, o \in BOOLEAN : MatchFound(p, o)
  \/ \E t \in webrtc.timeouts : OfferTimeout(t)
  \/ \E p \in Peers : CreateOffer(p)
  \/ \E t \in Suspended(webrtc) : CreateOfferStep(t)
  \/ \E d \in OfferData : OfferReceived(d)
  \/ \E t \in Suspended(webrtc) : HandleOfferStep(t)
  \/ \E d \in AnswerData : AnswerReceived(d)
  \/ \E t \in Suspended(webrtc) : HandleAnswerStep(t)
  \/ \E s \in {"checking", "connected", "disconnected", "failed"},
        throws \in BOOLEAN : IceConnectionStateChange(s, throws)
  \/ ConnectionStateChange
  \/ \E t \in webrtc.timeouts : IceTimeout(t)
  \/ \E t \in Suspended(webrtc) : HandleConnectionFailureStep(t)
  \/ \E t \in Suspended(webrtc) : AttemptReconnectionStep(t)
  \/ \E t \in Suspended(webrtc) : TaskAbandoned(t)
  \/ EndCall
  \/ UserLeft

ClientSpec == Init /\ [][ClientNext]_vars

\* the client as the hook drives it: createOffer is called by the offer
\* timer only
HookNext ==
  \/ \E p \in Peers, o \in BOOLEAN : MatchFound(p, o)
  \/ \E t \in webrtc.timeouts : OfferTimeout(t)
  \/ \E t \in Suspended(webrtc) : CreateOfferStep(t)
  \/ \E d \in OfferData : OfferReceived(d)
  \/ \E t \in Suspended(webrtc) : HandleOfferStep(t)
  \/ \E d \in AnswerData : AnswerReceived(d)
  \/ \E t \in Suspended(webrtc) : HandleAnswerStep(t)
  \/ \E s \in {"checking", "connected", "disconnected", "failed"},
        throws \in BOOLEAN : IceConnectionStateChange(s, throws)
  \/ ConnectionStateChange
  \/ \E t \in webrtc.timeouts : IceTimeout(t)
  \/ \E t \in Suspended(webrtc) : HandleConnectionFailureStep(t)
  \/ \E t \in Suspended(webrtc) : AttemptReconnectionStep(t)
  \/ \E t \in Suspended(webrtc) : TaskAbandoned(t)
  \/ EndCall
  \/ UserLeft

HookSpec == Init /\ [][HookNext]_vars

\* a timer that is due has its callback run
TimersRun ==
  \E t \in webrtc.timeouts : OfferTimeout(t) \/ IceTimeout(t)

\* a suspended invocation whose promise settles is resumed
TasksRun ==
  \E t \in Suspended(webrtc) :
    \/ CreateOfferStep(t)
    \/ HandleOfferStep(t)
    \/ HandleAnswerStep(t)
    \/ HandleConnectionFailureStep(t)
    \/ AttemptReconnectionStep(t)

\* the client under the scheduling of the JavaScript event loop: timer
\* callbacks and promise reactions are not postponed forever; what the
\* user, the peer and the network do is not promised
FairClientSpec ==
  /\ ClientSpec
  /\ WF_vars(TimersRun)
  /\ WF_vars(TasksRun)

\* ------------------------------------------------------------ the streams
\* the streams getUserMedia may return and the streams the peer may send
LocalStreams == {"l1", "l2"}
RemoteStreams == {"r1", "r2"}

\* setupLocalStream(), from initialize(), once getUserMedia has resolved:
\* this.localStream = await mediaDevices.getUserMedia(constraints)
SetupLocalStream(stream) ==
  /\ media' = [media EXCEPT !.localStream = stream,
                            !.hasLocalStream = TRUE,
                            !.stateLocalStream = stream]
  /\ webrtc' = Emit(Begin(webrtc, "initialize"), "localStream")
  /\ UNCHANGED <<serverVars, pair, ice, limiter, signaling>>

\* the ontrack / onaddstream callback of the peer connection
RemoteStreamAdded(stream) ==
  /\ webrtc.peerConnection # NoPc
  /\ media' = [media EXCEPT !.remoteStream = stream,
                            !.hasRemoteStream = TRUE,
                            !.stateRemoteStream = stream]
  /\ webrtc' = Emit(Begin(webrtc, "pc-event"), "remoteStream")
  /\ UNCHANGED <<serverVars, pair, ice, limiter, signaling>>

\* dispose(), called by the hook's cleanup before signalingService.disconnect():
\* endCall(), then the local tracks are stopped, the local stream is
\* released and this.state is replaced
Dispose ==
  /\ webrtc' = [EndCallService(Begin(webrtc, "dispose")) EXCEPT
                  !.inRoom = FALSE, !.offerer = FALSE,
                  !.connectionRetries = 0]
  /\ media' = MediaCreated
  /\ UNCHANGED <<serverVars, pair, ice, limiter, signaling>>

MediaNext ==
  \/ \E stream \in LocalStreams : SetupLocalStream(stream)
  \/ \E p \in Peers, o \in BOOLEAN : MatchFound(p, o)
  \/ \E p \in Peers : CreateOffer(p)
  \/ \E t \in Suspended(webrtc) : CreateOfferStep(t)
  \/ \E stream \in RemoteStreams : RemoteStreamAdded(stream)
  \/ EndCall
  \/ UserLeft
  \/ Dispose

MediaSpec == Init /\ [][MediaNext]_vars

\* ------------------------------------------------- the signaling service
\* the secure signaling service over a WebSocket (its connect, reconnect
\* and room handling).  A WebSocket is [readyState, code]; code is the code
\* its close event will carry once close() has been called on it
MaxOrphans == 1
MaxTimers == 2

\* the room the server may put this client in
SignalingRoomIds == {1}
\* close codes: 1000 normal closure, 1006 abnormal closure
NormalClosure == 1000
AbnormalClosure == 1006
CloseCodes == {NormalClosure, AbnormalClosure}

WebSocketIn(readyState, code) == [readyState |-> readyState, code |-> code]

RemoveAt(seq, i) == SubSeq(seq, 1, i - 1) \o SubSeq(seq, i + 1, Len(seq))

\* the WebSockets whose events can still arrive: 0 is this.socket, i > 0 an
\* orphan
LiveSockets(g) ==
  (IF g.socket \in {"connecting", "open"} THEN {0} ELSE {}) \cup DOMAIN g.orphans

ReadyState(g, i) == IF i = 0 THEN g.socket ELSE g.orphans[i].readyState

\* attemptReconnect(userSession): this.reconnectAttempts++ and
\* setTimeout(connect, this.reconnectDelay * this.reconnectAttempts)
AttemptReconnect(g) ==
  [g EXCEPT !.reconnectAttempts = @ + 1,
            !.timers = Append(@, reconnectDelay * (g.reconnectAttempts + 1)),
            !.delay = reconnectDelay * (g.reconnectAttempts + 1)]

\* a close handler that retries whatever the count
ShouldReconnectAlways(g, code) == code # NormalClosure

\* socket.onclose: "Attempt reconnection if not intentionally closed"
ShouldReconnect(g, code) ==
  code # NormalClosure /\ g.reconnectAttempts < maxReconnectAttempts

\* connect(userSession): this.socket = new WebSocket(this.serverUrl); the
\* WebSocket this.socket referred to is not closed
SignalingConnectTo(g) ==
  [g EXCEPT !.socket = "connecting",
            !.orphans = IF g.socket \in {"connecting", "open"}
                        THEN Append(@, WebSocketIn(g.socket, 0)) ELSE @]

\* the user (the hook's initialize) calls connect() on a service without a
\* live WebSocket
SignalingConnect ==
  /\ signaling.socket \in {"null", "closed"}
  /\ signaling' = [SignalingConnectTo(signaling) EXCEPT
                     !.op = "connect", !.disconnected = FALSE]
  /\ UNCHANGED <<serverVars, pair, webrtc, ice, limiter, media>>

\* socket.onopen of the WebSocket i
SocketOnOpen(i) ==
  /\ i \in LiveSockets(signaling)
  /\ ReadyState(signaling, i) = "connecting"
  /\ signaling' =
       [(IF i = 0 THEN [signaling EXCEPT !.socket = "open"]
         ELSE [signaling EXCEPT !.orphans[i].readyState = "open"])
          EXCEPT !.isConnected = TRUE,
                 !.reconnectAttempts = 0,
                 !.op = "open"]
  /\ UNCHANGED <<serverVars, pair, webrtc, ice, limiter, media>>

\* socket.onclose of the WebSocket i with event.code = code: a WebSocket on
\* which close() was called closes with the code that call left it, any
\* other one when the server or the network ends it.  The server forgets
\* the rooms of a connection that ends
SocketOnClose(i, code) ==
  /\ i \in LiveSockets(signaling)
  /\ ReadyState(signaling, i) = "closing" => code = signaling.orphans[i].code
  /\ LET closed == IF i = 0 THEN [signaling EXCEPT !.socket = "closed"]
                   ELSE [signaling EXCEPT !.orphans = RemoveAt(@, i)]
         g == [closed EXCEPT !.isConnected = FALSE,
                             !.op = "close",
                             !.serverRoom =
                                IF LiveSockets(closed) = {} THEN NoRoomId ELSE @]
     IN signaling' = IF ShouldReconnect(g, code) THEN AttemptReconnect(g) ELSE g
  /\ Len(signaling'.timers) <= MaxTimers
  /\ UNCHANGED <<serverVars, pair, webrtc, ice, limiter, media>>

\* the callback of the reconnect timer i: this.connect(userSession)
ReconnectTimeout(i) ==
  /\ i \in DOMAIN signaling.timers
  /\ signaling' = [SignalingConnectTo(signaling) EXCEPT
                     !.timers = RemoveAt(@, i), !.op = "reconnect"]
  /\ Len(signaling'.orphans) <= MaxOrphans
  /\ UNCHANGED <<serverVars, pair, webrtc, ice, limiter, media>>

\* disconnect(): this.socket.close(1000, ...), this.socket = null and
\* this.state = {isConnected: false, isSearching: false}.  An open
\* WebSocket closes with the code given; one that was still connecting
\* closes with it or as a failed connection
SignalingDisconnect(code) ==
  /\ signaling.socket = "open" => code = NormalClosure
  /\ signaling' =
       [signaling EXCEPT
          !.socket = "null",
          !.orphans = IF signaling.socket \in {"connecting", "open"}
                      THEN Append(@, WebSocketIn("closing", code)) ELSE @,
          !.isConnected = FALSE,
          !.currentRoomId = NoRoomId,
          !.disconnected = TRUE,
          !.op = "disconnect"]
  /\ Len(signaling'.orphans) <= MaxOrphans
  /\ UNCHANGED <<serverVars, pair, webrtc, ice, limiter, media>>

\* a message can arrive on a WebSocket that is open
CanReceive(g) == \E i \in LiveSockets(g) : ReadyState(g, i) = "open"

\* handleIncomingMessage, 'match-found': this.state.currentRoomId =
\* matchData.roomId
MatchFoundMessage(roomId) ==
  /\ CanReceive(signaling)
  /\ signaling.serverRoom = NoRoomId
  /\ signaling' = [signaling EXCEPT !.currentRoomId = roomId,
                                    !.serverRoom = roomId,
                                    !.op = "match-found"]
  /\ UNCHANGED <<serverVars, pair, webrtc, ice, limiter, media>>

\* handleIncomingMessage, 'user-left': this.emit('user-left', leftData);
\* the listener is handleUserLeft of the WebRTCService, which calls endCall
OnUserLeft(g) == g

\* the server has removed the room and tells the client that the partner
\* left
UserLeftMessage ==
  /\ CanReceive(signaling)
  /\ signaling.serverRoom # NoRoomId
  /\ signaling' = [OnUserLeft(signaling) EXCEPT !.serverRoom = NoRoomId,
                                                !.op = "user-left"]
  /\ UNCHANGED <<serverVars, pair, webrtc, ice, limiter, media>>

\* leaveCurrentMatch(): returns without a socket or a room; else sends
\* leave-room and clears currentRoomId.  sendMessage drops the message when
\* the WebSocket is not open or the rate limit is exceeded (limited)
LeaveCurrentMatch(limited) ==
  /\ signaling' =
       IF signaling.socket = "null" \/ signaling.currentRoomId = NoRoomId
       THEN [signaling EXCEPT !.op = "leave"]
       ELSE [signaling EXCEPT
               !.currentRoomId = NoRoomId,
               !.serverRoom = IF signaling.socket = "open" /\ ~limited
                                 /\ @ = signaling.currentRoomId
                              THEN NoRoomId ELSE @,
               !.op = "leave"]
  /\ UNCHANGED <<serverVars, pair, webrtc, ice, limiter, media>>

SignalingNext ==
  \/ SignalingConnect
  \/ \E i \in LiveSockets(signaling) : SocketOnOpen(i)
  \/ \E i \in LiveSockets(signaling), code \in CloseCodes : SocketOnClose(i, code)
  \/ \E i \in DOMAIN signaling.timers : ReconnectTimeout(i)
  \/ \E code \in CloseCodes : SignalingDisconnect(code)
  \/ \E roomId \in SignalingRoomIds : MatchFoundMessage(roomId)
  \/ UserLeftMessage
  \/ \E limited \in BOOLEAN : LeaveCurrentMatch(limited)

SignalingSpec == Init /\ [][SignalingNext]_vars

\* ------------------------------------------------- repeated registration
\* the user sessions of two different users
OtherUserSessions == [userId : UserIds \cup {"ub"}, preferences : Preferences]

\* The matchmaking events, with register-user for either user.
RegisterNext ==
  \/ Next
  \/ \E s \in Sockets : \E u \in OtherUserSessions : RegisterUser(s, u)

RegisterSpec == Init /\ [][RegisterNext]_vars

\* ================================================== inbound ICE candidates
\* the longest candidate string delivered, in fragments
MaxCandidateLen == 3

\* a candidate string is a sequence of fragments: pieces of text, or a
\* dotted-quad address (\d{1,3}\.\d{1,3}\.\d{1,3}\.\d{1,3}) with its four numbers
Fragment(text, ip) == [text |-> text, ip |-> ip]
NoIp == <<>>
CandidateFragments ==
  {Fragment(x, NoIp) : x \in {"candidate:", "typ ", "<script", "<SCRIPT"}}
    \cup {Fragment("ip", <<10, 0, 0, 1>>)}
CandidateStrings ==
  UNION {[1..n -> CandidateFragments] : n \in 0..MaxCandidateLen}

\* the value of a candidate field: a string, or a value of another type
StringValue(str) == [type |-> "string", str |-> str]
ANumber == [type |-> "number", str |-> <<>>]
CandidateValues ==
  {StringValue(str) : str \in CandidateStrings} \cup {Undefined, ANumber}

\* the candidate object handleIceCandidate works on
IceCandidateInit(value, index, mid) ==
  [candidate |-> value, sdpMLineIndex |-> index, sdpMid |-> mid]
NullCandidate == IceCandidateInit(Undefined, NullIndex, "null")

\* the data of an 'ice-candidate' event: the candidate fields on data itself
\* ("flat"), under data.candidate ("nested"), or data.candidate = null
IceData ==
  [shape : {"flat", "nested"},
   candidate : CandidateValues,
   sdpMLineIndex : {NullIndex, 0},
   sdpMid : {NoMid, "0"}]
    \cup {[shape |-> "null", candidate |-> Undefined,
           sdpMLineIndex |-> NullIndex, sdpMid |-> NoMid]}

\* !value for a candidate field: undefined and the empty string are falsy
Falsy(value) ==
  \/ value.type = "undefined"
  \/ value.type = "string" /\ value.str = <<>>

\* String.prototype.includes for a fragment
Includes(str, text) == \E i \in DOMAIN str : str[i].text = text

\* the i flag of a pattern: the text is compared in lower case
LowerCase(text) == IF text = "<SCRIPT" THEN "<script" ELSE text

\* the suspiciousPatterns of isValidIceCandidate
suspiciousPatterns == {"<script", "javascript:", "data:", "vbscript:"}

\* pattern.test(candidateString) for one of the patterns
Suspicious(str) ==
  \E i \in DOMAIN str : LowerCase(str[i].text) \in suspiciousPatterns

\* candidateString.match(ip pattern): the first address of the string
HasIp(str) == \E i \in DOMAIN str : str[i].ip # NoIp
FirstIp(str) ==
  str[CHOOSE i \in DOMAIN str :
        str[i].ip # NoIp /\ \A j \in 1..(i - 1) : str[j].ip = NoIp].ip

\* 10.0.0.0/8, 172.16.0.0/12, 192.168.0.0/16
PrivateIp(parts) ==
  \/ parts[1] = 10
  \/ parts[1] = 172 /\ parts[2] >= 16 /\ parts[2] <= 31
  \/ parts[1] = 192 /\ parts[2] = 168

\* isValidIceCandidate(candidate); dev is __DEV__
isValidIceCandidate(candidate, dev) ==
  LET value == candidate.candidate
  IN IF Falsy(value) \/ value.type # "string" THEN FALSE
     ELSE IF ~Includes(value.str, "candidate:") \/ ~Includes(value.str, "typ ")
     THEN FALSE
     ELSE IF Suspicious(value.str) THEN FALSE
     ELSE IF HasIp(value.str)
             /\ \E k \in 1..4 : FirstIp(value.str)[k] > 255
     THEN FALSE
     ELSE IF HasIp(value.str) /\ ~dev /\ PrivateIp(FirstIp(value.str))
     THEN FALSE
     ELSE TRUE

\* the candidate handleIceCandidate extracts from data
ExtractCandidate(data) ==
  IF data.shape = "null" THEN NullCandidate
  ELSE IceCandidateInit(data.candidate, data.sdpMLineIndex, data.sdpMid)

\* handleIceCandidate(data)
HandleIceCandidate(i, data) ==
  IF i.pc = "none" THEN i
  ELSE IF i.pc = "no-remote" THEN i
  ELSE LET candidate == ExtractCandidate(data)
       IN IF candidate = NullCandidate \/ Falsy(candidate.candidate) THEN i
          ELSE IF ~isValidIceCandidate(candidate, i.dev) THEN i
          ELSE IF candidate.sdpMLineIndex = NullIndex
                  /\ candidate.sdpMid = NoMid
          THEN i
          ELSE [i EXCEPT !.added = Append(@, candidate)]

\* signalingService.emit('ice-candidate', data): the listener of
\* setupSignalingListeners, then the one of the hook
IceCandidateListeners(i, data) ==
  HandleIceCandidate(HandleIceCandidate(i, data), data)

IceCandidateReceived(data) ==
  /\ ice' = IceCandidateListeners(
              [ice EXCEPT !.handled = data, !.added = <<>>], data)
  /\ UNCHANGED <<serverVars, pair, webrtc, limiter, media, signaling>>

\* the peer connection is created, gets its remote description, or is closed
PeerConnectionBecomes(pc) ==
  /\ pc # ice.pc
  /\ pc = "ready" => ice.pc = "no-remote"
  /\ ice' = [ice EXCEPT !.pc = pc, !.handled = NoIceData, !.added = <<>>]
  /\ UNCHANGED <<serverVars, pair, webrtc, limiter, media, signaling>>

IceInit ==
  /\ ServerStarted
  /\ pair = NoPair
  /\ webrtc = ServiceCreated
  /\ \E dev \in BOOLEAN : ice = IceServiceCreated(dev)
  /\ limiter = LimiterCreated
  /\ media = MediaCreated
  /\ signaling = SignalingCreated

IceNext ==
  \/ \E data \in IceData : IceCandidateReceived(data)
  \/ \E pc \in {"none", "no-remote", "ready"} : PeerConnectionBecomes(pc)

IceSpec == IceInit /\ [][IceNext]_vars

\* ==================================================== the rate limiter
\* the clock advances at most MaxClockSteps times, by one of ClockSteps
\* milliseconds, and at most MaxExcess messages beyond the limit are tried
\* in one counting window
MaxClockSteps == 3
MaxExcess == 2
ClockSteps == {1, rateLimitWindow}

\* the messages sent at time t, for the times t within the last window
SentAt(l, t) == IF t \in DOMAIN l.sent THEN l.sent[t] ELSE 0

RECURSIVE SumSent(_, _)
SumSent(sent, times) ==
  IF times = {} THEN 0
  ELSE LET t == CHOOSE x \in times : TRUE
       IN sent[t] + SumSent(sent, times \ {t})

\* the number of messages sent in the last rateLimitWindow milliseconds
SentInWindow(l) == SumSent(l.sent, DOMAIN l.sent)

\* isRateLimited(): the window and the counter after the call
WindowStart(l) ==
  IF l.now - l.lastMessageTime > rateLimitWindow THEN l.now
  ELSE l.lastMessageTime

CountAfterCheck(l) ==
  (IF l.now - l.lastMessageTime > rateLimitWindow THEN 0 ELSE l.messageCount)
    + 1

isRateLimited(l) == CountAfterCheck(l) > maxMessagesPerWindow

\* sendMessage(message) on an open socket: the message is sent unless the
\* limiter rejects it; a rejected message is not kept
SendMessage ==
  /\ CountAfterCheck(limiter) <= maxMessagesPerWindow + MaxExcess
  /\ limiter' = [limiter EXCEPT
                   !.lastMessageTime = WindowStart(limiter),
                   !.messageCount = CountAfterCheck(limiter),
                   !.sent = IF isRateLimited(limiter) THEN @
                            ELSE MapSet(@, limiter.now,
                                        SentAt(limiter, limiter.now) + 1),
                   !.rejected = isRateLimited(limiter)]
  /\ UNCHANGED <<serverVars, pair, webrtc, ice, media, signaling>>

\* time passes
ClockAdvances(d) ==
  /\ limiter.steps < MaxClockSteps
  /\ limiter' = [limiter EXCEPT
                   !.now = @ + d,
                   !.steps = @ + 1,
                   !.rejected = FALSE,
                   !.sent = [t \in {x \in DOMAIN @ :
                                      x > limiter.now + d - rateLimitWindow}
                               |-> @[t]]]
  /\ UNCHANGED <<serverVars, pair, webrtc, ice, media, signaling>>

LimiterNext ==
  \/ SendMessage
  \/ \E d \in ClockSteps : ClockAdvances(d)

LimiterSpec == Init /\ [][LimiterNext]_vars

\* =========================================== the relay and message content
\* SecurityConfig.content.maxMessageLength
maxMessageLength == 1000

\* JSON.stringify(message).length
JsonLength(message) == message.data.payload.chars

\* the candidate field is a string with both protocol markers
HasMarkers(value) ==
  /\ value.type = "string"
  /\ Includes(value.str, "candidate:")
  /\ Includes(value.str, "typ ")

\* candidate fields a client may put in an ice-candidate message: well
\* formed, without a marker, with a script tag, not a string
SentCandidates ==
  {StringValue(<<Fragment("candidate:", NoIp), Fragment("typ ", NoIp)>>),
   StringValue(<<Fragment("typ ", NoIp)>>),
   StringValue(<<Fragment("candidate:", NoIp), Fragment("typ ", NoIp),
                 Fragment("<script", NoIp)>>),
   ANumber}

\* signaling-messages with content: ice-candidate and offer messages at the
\* length limit and one character above it
ContentMessages ==
  {[type |-> "ice-candidate",
    data |-> [payload |-> Payload(c, n), from |-> 0]] :
     c \in SentCandidates, n \in {maxMessageLength, maxMessageLength + 1}}
  \cup
  {[type |-> "offer",
    data |-> [payload |-> Payload(Undefined, n), from |-> 0]] :
     n \in {maxMessageLength, maxMessageLength + 1}}

\* The matchmaking events and the relay of messages with content.
ContentNext ==
  \/ Next
  \/ \E s \in Sockets : \E m \in ContentMessages : SignalingMessage(s, m)

ContentSpec == Init /\ [][ContentNext]_vars

\* ----------------------------------------------------------------- claims
SendsOffer == "sendOffer" \in webrtc'.emits
SendsAnswer == "sendAnswer" \in webrtc'.emits

\* C14: within one room membership the client sends an offer through the
\* signaling service at most once: a step that sends an offer is taken only
\* when no offer has been sent in this membership, whatever the number and
\* interleaving of createOffer invocations
C14_AtMostOneOffer ==
  [][(webrtc.inRoom /\ SendsOffer) => ~webrtc.offered]_vars

OutstandingOffer(w) ==
  /\ w.peerConnection # NoPc
  /\ w.peerConnection.signalingState = "have-local-offer"
  /\ ~w.isConnected

\* the step is the delivery of the answer event d to both listeners
DeliversAnswer(d) == webrtc' = AnswerListeners(Begin(webrtc, "answer"), d)

C17_CallEndResets ==
  webrtc.op \in {"endCall", "user-left"}
    => /\ ~webrtc.offerSent
       /\ ~webrtc.answerSent
       /\ webrtc.lastProcessedAnswerKey = NoKey
       /\ webrtc.connectionRetries = 0

\* the step is the delivery of the offer event d to both listeners
DeliversOffer(d) == webrtc' = OfferListeners(Begin(webrtc, "offer"), d)

\* C18: the delivery of an offer that lacks its type or its sdp creates no
\* peer connection, starts no setRemoteDescription, sends no answer, leaves
\* answerSent and the current peer id as they were and ends in no catch
\* block (no connectionError)
C18_MalformedOfferRejected ==
  [][\A d \in OfferData :
       (/\ webrtc'.op = "offer"
        /\ (d.desc.type = "" \/ d.desc.sdp = NoSdp)
        /\ DeliversOffer(d))
       => /\ webrtc'.peerConnection = webrtc.peerConnection
          /\ webrtc'.tasks = webrtc.tasks
          /\ webrtc'.answerSent = webrtc.answerSent
          /\ webrtc'.currentPeerId = webrtc.currentPeerId
          /\ webrtc'.emits = {}]_vars

\* an offer was delivered to a client that would have answered a complete
\* one (no answer sent, not connected, no peer connection yet), and the
\* client still has no peer connection and no peer
C18_Witness ==
  /\ webrtc.op = "offer"
  /\ webrtc.inRoom
  /\ ~webrtc.answerSent
  /\ ~webrtc.isConnected
  /\ webrtc.peerConnection = NoPc
  /\ webrtc.currentPeerId = NoPeer
  /\ webrtc.tasks = <<>>
  /\ webrtc.emits = {}

\* the state endCall leaves: neither connecting nor connected, no peer
\* connection
Ended(w) == ~w.isConnecting /\ ~w.isConnected /\ w.peerConnection = NoPc

\* C19: a negotiation that is connecting eventually is connected or ended
C19_ConnectingEnds ==
  webrtc.isConnecting ~> (webrtc.isConnected \/ Ended(webrtc))

\* C20: the retry count has a cap: a handleConnectionFailure that resumes
\* with the count at the cap emits connectionError and creates no peer
\* connection. The cap is taken as MaxRetries, the largest count explored
C20_RetriesCapped ==
  [][\A t \in Suspended(webrtc) :
       (/\ webrtc.connectionRetries >= MaxRetries
        /\ HandleConnectionFailureStep(t))
       => /\ "connectionError" \in webrtc'.emits
          /\ webrtc'.peerConnection = NoPc]_vars

\* C21: once the call has ended (endCall or user-left) and until the next
\* room, no timer callback and no resumed invocation takes effect: the
\* client keeps having no peer connection, isConnecting and isConnected do
\* not change, and neither reconnecting nor connectionError is emitted
C21_NothingRunsAfterEnded ==
  [][(/\ ~webrtc.inRoom
      /\ Ended(webrtc)
      /\ webrtc'.op \in {"timeout", "resume"})
     => /\ webrtc'.peerConnection = NoPc
        /\ webrtc'.isConnecting = webrtc.isConnecting
        /\ webrtc'.isConnected = webrtc.isConnected
        /\ "reconnecting" \notin webrtc'.emits
        /\ "connectionError" \notin webrtc'.emits]_vars

\* the candidate string of the data contains '<script' in some case
ScriptCandidate(data) ==
  /\ data.candidate.type = "string"
  /\ \E i \in DOMAIN data.candidate.str :
       LowerCase(data.candidate.str[i].text) = "<script"

\* C22: after an 'ice-candidate' event whose candidate string contains
\* '<script' (any case) has been handled, nothing was passed to
\* addIceCandidate and the security event log holds a record of the rejection
C22_ScriptCandidateRejectedAndLogged ==
  ScriptCandidate(ice.handled)
    => /\ ice.added = <<>>
       /\ ice.securityEvents # <<>>

\* C23 (the relay's part): a signaling-message of type ice-candidate whose
\* candidate field is not a string with both markers 'candidate:' and 'typ '
\* is dropped: the relay emits nothing for it
C23_OnlyStructuredCandidatesPass ==
  (/\ last.op = "signaling-message"
   /\ last.msg.type = "ice-candidate"
   /\ ~HasMarkers(last.msg.data.payload.candidate))
    => emitted = <<>>

\* C28: a signaling-message whose serialized length exceeds maxMessageLength
\* is not forwarded: the relay emits nothing for it
C28_OversizedNotForwarded ==
  (/\ last.op = "signaling-message"
   /\ JsonLength(last.msg) > maxMessageLength)
    => emitted = <<>>

\* C24: in every interval of rateLimitWindow milliseconds at most
\* maxMessagesPerWindow messages are sent
C24_AtMostMaxPerInterval == SentInWindow(limiter) <= maxMessagesPerWindow

\* C25: a find-match from a session that is not registered leaves the
\* waiting pool and the rooms as they were and emits one event, an error
\* (room-error, 'User not registered') to the requester
C25_FindMatchNotRegistered ==
  [][\A s \in Sockets :
       (Ran("find-match", s) /\ s \notin DOMAIN activeUsers)
       => /\ waitingUsers' = waitingUsers
          /\ activeRooms' = activeRooms
          /\ activeUsers' = activeUsers
          /\ emitted' = <<Event("room-error", s,
                                [message |-> "User not registered"])>>]_vars

\* an unregistered session has asked for a match while another session was
\* waiting, and got the error
C25_Witness ==
  /\ last.op = "find-match"
  /\ last.sock \notin DOMAIN activeUsers
  /\ waitingUsers # <<>>
  /\ Len(emitted) = 1
  /\ emitted[1].type = "room-error"
  /\ emitted[1].to = last.sock

\* C26: a register-user on a connection that is already registered leaves
\* the stored session as it was, and the waiting pool and the rooms too
C26_ReRegisterKeepsSession ==
  [][\A s \in Sockets :
       (Ran("register-user", s) /\ s \in DOMAIN activeUsers)
       => /\ activeUsers'[s] = activeUsers[s]
          /\ waitingUsers' = waitingUsers
          /\ activeRooms' = activeRooms]_vars

\* C27: a find-match of a registered session that is in no room and not
\* waiting, arriving while the pool is not empty, creates a room of the
\* requester and the session that entered the pool first; neither of the two
\* is in the pool afterwards, and the sessions that entered later stay
C27_PairsEarliestWaiting ==
  [][\A s \in Sockets :
       (/\ Ran("find-match", s)
        /\ s \in DOMAIN activeUsers
        /\ ~AlreadyInRoom(s)
        /\ ~AlreadyWaiting(s)
        /\ waitingUsers # <<>>)
       => /\ \E r \in DOMAIN activeRooms' \ DOMAIN activeRooms :
               Participants(activeRooms'[r]) = {waitingUsers[1], s}
          /\ waitingUsers[1] \notin SeqToSet(waitingUsers')
          /\ s \notin SeqToSet(waitingUsers')
          /\ waitingUsers' = Tail(waitingUsers)]_vars

\* the requester has just been paired with the session that waited, and the
\* pool is empty
C27_Witness ==
  /\ last.op = "find-match"
  /\ last.roomId \in DOMAIN activeRooms
  /\ activeRooms[last.roomId].user2 = last.sock
  /\ activeRooms[last.roomId].user1 # last.sock
  /\ waitingUsers = <<>>

\* the callback of the timer t has just run and has begun connection-failure
\* recovery: handleConnectionFailure() or attemptReconnection() got past its
\* guard, closed the peer connection and waits for its delay
RecoveryBegunBy(t) ==
  /\ t \in webrtc.timeouts
  /\ t.kind \in {"ice-recover", "ice-checking"}
  /\ webrtc'.op = "timeout"
  /\ webrtc'.timeouts = webrtc.timeouts \ {t}
  /\ Len(webrtc'.tasks) = Len(webrtc.tasks) + 1
  /\ webrtc'.tasks[Len(webrtc'.tasks)].fn
       \in {"handleConnectionFailure", "attemptReconnection"}

\* the iceConnectionState in which the timer t is armed
ArmedIn(t) ==
  IF t.kind = "ice-checking" THEN {"checking"} ELSE {"failed", "disconnected"}

\* C29: a timer armed on entering an ICE state begins connection-failure
\* recovery only if there still is a peer connection and it is in the state
\* in which the timer was armed; a timer whose state has been left (the
\* connection closed, replaced, or moved to another state) has no effect
C29_StaleTimerHasNoEffect ==
  [][\A t \in webrtc.timeouts :
       RecoveryBegunBy(t)
         => /\ webrtc.peerConnection # NoPc
            /\ webrtc.peerConnection.iceConnectionState \in ArmedIn(t)]_vars

\* this step begins the full teardown: the peer connection is closed and a
\* recovery routine that will create a new one waits for its delay
TeardownBegun ==
  /\ webrtc.peerConnection # NoPc
  /\ webrtc'.peerConnection = NoPc
  /\ Len(webrtc'.tasks) = Len(webrtc.tasks) + 1
  /\ webrtc'.tasks[Len(webrtc'.tasks)].fn
       \in {"handleConnectionFailure", "attemptReconnection"}

\* C30: the peer connection is closed for recreation only by the callback of
\* a timer armed by oniceconnectionstatechange, that is, after the wait that
\* follows the ICE restart has elapsed; no failure signal tears the
\* connection down at once
C30_TeardownOnlyAfterWait ==
  [][TeardownBegun
       => /\ webrtc'.op = "timeout"
          /\ \E t \in webrtc.timeouts :
               /\ t.kind \in {"ice-recover", "ice-checking"}
               /\ webrtc'.timeouts = webrtc.timeouts \ {t}]_vars

\* C31: endCall, called by the user or on user-left, leaves the local stream
\* reference, hasLocalStream and the local stream of the service state as
\* they were, and clears the remote stream references
C31_EndCallKeepsLocalStream ==
  [][webrtc'.op \in {"endCall", "user-left"}
       => /\ media'.localStream = media.localStream
          /\ media'.hasLocalStream = media.hasLocalStream
          /\ media'.stateLocalStream = media.stateLocalStream
          /\ media'.remoteStream = NoStream
          /\ ~media'.hasRemoteStream
          /\ webrtc'.peerConnection = NoPc]_vars

\* a call with a local and a remote stream has just been ended
C31_Witness ==
  /\ webrtc.op = "endCall"
  /\ media.localStream \in LocalStreams
  /\ media.hasLocalStream
  /\ media.remoteStream = NoStream
  /\ "callEnded" \in webrtc.emits

\* C32: a timeout callback emits no-match only when it is the callback of
\* a timer whose session has stayed in the pool since the find-match that
\* armed it, and it changes neither the pool nor the rooms
C32_NoMatchOnlyAfterContinuousWait ==
  [][(last'.op = "timeout" /\ emitted' # <<>>)
       => /\ \E t \in timers :
               /\ t.sock = last'.sock
               /\ ~t.stale
               /\ timers' = timers \ {t}
          /\ waitingUsers' = waitingUsers
          /\ activeRooms' = activeRooms]_vars

\* C33: when a reconnection attempt is scheduled after an earlier one, with
\* no successful open in between, its delay is twice the delay of the
\* earlier one
C33_DelayDoubles ==
  [][(/\ signaling'.reconnectAttempts = signaling.reconnectAttempts + 1
      /\ signaling.reconnectAttempts >= 1)
       => signaling'.delay = 2 * signaling.delay]_vars

\* C38: while the user has called disconnect() and not connect() since,
\* the service holds no WebSocket
C38_NoSocketAfterDisconnect ==
  signaling.disconnected => signaling.socket = "null"

\* C39: once user-left has been delivered the service records no current
\* room, as the server, which has removed the room
C39_UserLeftClearsRoom ==
  signaling.op = "user-left"
    => /\ signaling.currentRoomId = NoRoomId
       /\ signaling.currentRoomId = signaling.serverRoom

\* C40: reconnectAttempts, the number of reconnection attempts since the
\* last successful open, never exceeds maxReconnectAttempts; a close
\* schedules a reconnection only below that number, and none once it is
\* reached; a successful open sets the number to zero
C40_ReconnectAttemptsCapped ==
  [][/\ signaling'.reconnectAttempts <= maxReconnectAttempts
     /\ Len(signaling'.timers) > Len(signaling.timers)
          => /\ signaling.reconnectAttempts < maxReconnectAttempts
             /\ signaling'.reconnectAttempts = signaling.reconnectAttempts + 1
     /\ (signaling'.op = "close"
           /\ signaling.reconnectAttempts = maxReconnectAttempts)
          => signaling'.timers = signaling.timers
     /\ (signaling'.op = "open" /\ signaling' # signaling)
          => signaling'.reconnectAttempts = 0]_vars

\* the fifth reconnection has failed and no further one is scheduled
C40_Witness ==
  /\ signaling.op = "close"
  /\ signaling.reconnectAttempts = maxReconnectAttempts
  /\ signaling.socket = "closed"
  /\ signaling.timers = <<>>
  /\ ~signaling.disconnected

\* C34: the waiting pool never holds more than one session, and a
\* find-match of a session that may search, arriving while another session
\* waits, adds nobody to the pool
C34_PoolAtMostOne ==
  /\ Len(waitingUsers) <= 1
  /\ (last.op = "find-match" /\ last.roomId # NoRoomId) => waitingUsers = <<>>

\* one session waits while two others share a room
C34_Witness ==
  /\ Len(waitingUsers) = 1
  /\ activeRooms # EmptyMap
  /\ last.op = "find-match"
  /\ last.sock = waitingUsers[1]

\* C37: what the relay forwards has the type and the payload of the
\* message as the sender sent them, and a from field equal to the socket id
\* of the sender, whatever from field the sender put in its data
C37_ForwardedFromIsSender ==
  last.op = "signaling-message"
    => \A i \in 1..Len(emitted) :
         /\ emitted[i].type = last.msg.type
         /\ emitted[i].body.payload = last.msg.data.payload
         /\ emitted[i].body.from = last.sock

\* a message whose data names another session as its sender was relayed
C37_Witness ==
  /\ last.op = "signaling-message"
  /\ last.msg.data.from \in Sockets \ {last.sock}
  /\ Len(emitted) = 1
  /\ emitted[1].body.from = last.sock

\* handleConnectionFailure or attemptReconnection has resumed after its
\* delay in this step and createPeerConnection has installed a new connection
InstalledAfterDelay ==
  /\ webrtc'.op = "resume"
  /\ webrtc'.emits \cap {"reconnecting", "readyForNewConnection"} # {}

\* C36: when createPeerConnection installs a new connection after the delay
\* of a recovery routine, the service holds no connection that is still
\* open: the earlier one has been closed and cleared
C36_InstallsOverClosedOnly ==
  [][InstalledAfterDelay => webrtc.peerConnection = NoPc]_vars

\* C35: in a room the client sends an offer only if it is the one of the
\* two that the comparison of the socket ids made the offerer; the other
\* one never sends an offer, so the two offers of a glare cannot both be
\* sent
C35_OnlyOffererSendsOffer ==
  [][(webrtc.inRoom /\ SendsOffer) => webrtc.offerer]_vars
====
